---- MODULE Spec2Model ----
(***************************************************************************)
(* EnhanceMD: the document content transformation pipeline.                *)
(*                                                                         *)
(* Texts are sequences of one-character strings, so that the regular       *)
(* expressions of the source are modelled by what they match, character    *)
(* by character.                                                           *)
(***************************************************************************)
EXTENDS Integers, Sequences, FiniteSets, TLC

VARIABLES doc, content, variables, run, smart, pipe, tick, autoSave, templates, localStorage, exportHistory, app, palette

vars == <<doc, content, variables, run, smart, pipe, tick, autoSave, templates, localStorage, exportHistory, app, palette>>

(***************************************************************************)
(* Text helpers (String.prototype operations used by the source).          *)
(***************************************************************************)
Take(s, n) == SubSeq(s, 1, n)

Drop(s, n) == SubSeq(s, n + 1, Len(s))

MinOf(S) == CHOOSE m \in S : \A o \in S : m <= o

\* the pattern p, a literal, matches s at position i
MatchAt(s, p, i) ==
    /\ i >= 1
    /\ i + Len(p) - 1 <= Len(s)
    /\ \A j \in 1..Len(p) : s[i + j - 1] = p[j]

\* position of the first match of the literal p in s at or after from, 0 if none
IndexOf(s, p, from) ==
    LET c == {i \in from..(Len(s) - Len(p) + 1) : MatchAt(s, p, i)}
    IN  IF c = {} THEN 0 ELSE MinOf(c)

Includes(s, p) == IndexOf(s, p, 1) # 0

\* Array.prototype.slice(0, n)
slice(s, n) == SubSeq(s, 1, IF Len(s) > n THEN n ELSE Len(s))

RECURSIVE Flatten(_)
Flatten(ss) == IF ss = <<>> THEN <<>> ELSE Head(ss) \o Flatten(Tail(ss))

IsSpace(c) == c \in {" ", "\n"}

RECURSIVE TrimStart(_)
TrimStart(s) == IF s # <<>> /\ IsSpace(s[1]) THEN TrimStart(Tail(s)) ELSE s

RECURSIVE TrimEnd(_)
TrimEnd(s) ==
    IF s # <<>> /\ IsSpace(s[Len(s)]) THEN TrimEnd(Take(s, Len(s) - 1)) ELSE s

\* String.prototype.trim
Trim(s) == TrimEnd(TrimStart(s))

RECURSIVE JoinNl(_)
\* Array.prototype.join('\n')
JoinNl(ss) ==
    IF ss = <<>> THEN <<>>
    ELSE IF Len(ss) = 1 THEN ss[1]
    ELSE ss[1] \o <<"\n">> \o JoinNl(Tail(ss))

RECURSIVE GetSubstitution(_, _)
\* the replacement patterns of String.prototype.replace with a string
\* replacement and a pattern without capture groups: $$ is a dollar sign and
\* $& the matched text; every other character stands for itself
GetSubstitution(repl, matched) ==
    IF repl = <<>> THEN <<>>
    ELSE IF Len(repl) >= 2 /\ repl[1] = "$" /\ repl[2] = "$"
         THEN <<"$">> \o GetSubstitution(Drop(repl, 2), matched)
    ELSE IF Len(repl) >= 2 /\ repl[1] = "$" /\ repl[2] = "&"
         THEN matched \o GetSubstitution(Drop(repl, 2), matched)
    ELSE <<repl[1]>> \o GetSubstitution(Tail(repl), matched)

RECURSIVE ReplaceAllStr(_, _, _)
\* s.replace(new RegExp(p, 'g'), repl) for a pattern p that is a literal
ReplaceAllStr(s, p, repl) ==
    LET i == IndexOf(s, p, 1)
    IN  IF i = 0 THEN s
        ELSE Take(s, i - 1) \o GetSubstitution(repl, p)
             \o ReplaceAllStr(Drop(s, i + Len(p) - 1), p, repl)

\* s.replace(p, repl) for a string pattern p: the first occurrence only
ReplaceFirstStr(s, p, repl) ==
    LET i == IndexOf(s, p, 1)
    IN  IF i = 0 THEN s
        ELSE Take(s, i - 1) \o GetSubstitution(repl, p) \o Drop(s, i + Len(p) - 1)

(***************************************************************************)
(* Numbers and their decimal text (String(n), parseInt, parseFloat on the  *)
(* unsigned integers of the model).                                        *)
(***************************************************************************)
Digits == <<"0", "1", "2", "3", "4", "5", "6", "7", "8", "9">>

IsDigit(c) == \E d \in 1..10 : Digits[d] = c

DigitVal(c) == (CHOOSE d \in 1..10 : Digits[d] = c) - 1

RECURSIVE NumToStr(_)
NumToStr(n) ==
    IF n < 10 THEN <<Digits[n + 1]>>
    ELSE NumToStr(n \div 10) \o <<Digits[(n % 10) + 1]>>

RECURSIVE DigitsVal(_)
DigitsVal(s) ==
    IF s = <<>> THEN 0
    ELSE DigitsVal(Take(s, Len(s) - 1)) * 10 + DigitVal(s[Len(s)])

\* the end of the run of digits of s that starts at i (i - 1 if there is none)
RECURSIVE DigitRunEnd(_, _)
DigitRunEnd(s, i) ==
    IF i <= Len(s) /\ IsDigit(s[i]) THEN DigitRunEnd(s, i + 1) ELSE i - 1

AllDigits(s) == s # <<>> /\ \A i \in 1..Len(s) : IsDigit(s[i])

(***************************************************************************)
(* JSON.parse, for JSON texts without string escapes, signs, fractions and *)
(* exponents.  A parse returns [ok, v, next]; a value is a record tagged   *)
(* by t: null, bool, num, str, arr (items) or obj (keys, vals).            *)
(***************************************************************************)
JFail == [ok |-> FALSE, v |-> [t |-> "null"], next |-> 0]

JOk(v, next) == [ok |-> TRUE, v |-> v, next |-> next]

RECURSIVE SkipWs(_, _)
SkipWs(s, i) == IF i <= Len(s) /\ IsSpace(s[i]) THEN SkipWs(s, i + 1) ELSE i

JString(s, i) ==
    LET q == IndexOf(s, <<"\"">>, i + 1)
    IN  IF q = 0 THEN JFail
        ELSE JOk([t |-> "str", s |-> SubSeq(s, i + 1, q - 1)], q + 1)

JNumber(s, i) ==
    LET e == IF s[i] = "0" THEN i ELSE DigitRunEnd(s, i)
    IN  JOk([t |-> "num", n |-> DigitsVal(SubSeq(s, i, e))], e + 1)

RECURSIVE JParse(_, _, _, _, _)

\* what follows the element e of an array whose earlier elements are vs
JAfterElement(s, e, vs) ==
    IF ~e.ok THEN JFail
    ELSE IF MatchAt(s, <<",">>, SkipWs(s, e.next))
         THEN JParse("elements", s, SkipWs(s, e.next) + 1, <<>>, Append(vs, e.v))
    ELSE IF MatchAt(s, <<"]">>, SkipWs(s, e.next))
         THEN JOk([t |-> "arr", items |-> Append(vs, e.v)], SkipWs(s, e.next) + 1)
    ELSE JFail

\* what follows the member k : e of an object whose earlier members are ks, vs
JAfterMember(s, k, e, ks, vs) ==
    IF ~e.ok THEN JFail
    ELSE IF MatchAt(s, <<",">>, SkipWs(s, e.next))
         THEN JParse("members", s, SkipWs(s, e.next) + 1, Append(ks, k.v.s), Append(vs, e.v))
    ELSE IF MatchAt(s, <<"}">>, SkipWs(s, e.next))
         THEN JOk([t |-> "obj", keys |-> Append(ks, k.v.s), vals |-> Append(vs, e.v)],
                  SkipWs(s, e.next) + 1)
    ELSE JFail

\* the member whose key k has been read: a colon and a value
JMember(s, k, ks, vs) ==
    JAfterMember(s, k,
                 IF k.ok /\ MatchAt(s, <<":">>, SkipWs(s, k.next))
                 THEN JParse("value", s, SkipWs(s, k.next) + 1, <<>>, <<>>)
                 ELSE JFail,
                 ks, vs)

\* the recursive descent, one operator for its three productions: in mode
\* "value" the value that starts at i0; in mode "elements" the elements of
\* an array after "[" or ",", up to and including "]", vs being the elements
\* read so far; in mode "members" the members of an object after "{" or ",",
\* up to and including "}", ks and vs being the keys and values read so far
JParse(mode, s, i0, ks, vs) ==
    LET i == SkipWs(s, i0)
    IN  IF mode = "value" THEN
            IF i > Len(s) THEN JFail
            ELSE IF MatchAt(s, <<"n", "u", "l", "l">>, i) THEN JOk([t |-> "null"], i + 4)
            ELSE IF MatchAt(s, <<"t", "r", "u", "e">>, i)
                 THEN JOk([t |-> "bool", b |-> TRUE], i + 4)
            ELSE IF MatchAt(s, <<"f", "a", "l", "s", "e">>, i)
                 THEN JOk([t |-> "bool", b |-> FALSE], i + 5)
            ELSE IF IsDigit(s[i]) THEN JNumber(s, i)
            ELSE IF s[i] = "\"" THEN JString(s, i)
            ELSE IF s[i] = "[" THEN
                 IF MatchAt(s, <<"]">>, SkipWs(s, i + 1))
                 THEN JOk([t |-> "arr", items |-> <<>>], SkipWs(s, i + 1) + 1)
                 ELSE JParse("elements", s, i + 1, <<>>, <<>>)
            ELSE IF s[i] = "{" THEN
                 IF MatchAt(s, <<"}">>, SkipWs(s, i + 1))
                 THEN JOk([t |-> "obj", keys |-> <<>>, vals |-> <<>>],
                          SkipWs(s, i + 1) + 1)
                 ELSE JParse("members", s, i + 1, <<>>, <<>>)
            ELSE JFail
        ELSE IF mode = "elements" THEN
            JAfterElement(s, JParse("value", s, i, <<>>, <<>>), vs)
        ELSE
            JMember(s, IF MatchAt(s, <<"\"">>, i) THEN JString(s, i) ELSE JFail, ks, vs)

JValue(s, i) == JParse("value", s, i, <<>>, <<>>)

\* a parse r that ends where the text ends
JWhole(s, r) == IF r.ok /\ SkipWs(s, r.next) = Len(s) + 1 THEN r ELSE JFail

\* JSON.parse(text): the whole text is one value
JSONParse(s) == JWhole(s, JValue(s, 1))

(***************************************************************************)
(* The template syntax, as the template literals of processTemplate build  *)
(* it around a variable's name.                                            *)
(***************************************************************************)
OB == <<"{", "{">>

CB == <<"}", "}">>

RECURSIVE Repeat(_, _)
Repeat(c, n) == IF n = 0 THEN <<>> ELSE <<c>> \o Repeat(c, n - 1)

\* what /{{name}}/ matches: the literal text {{name}}, except that an
\* all-digit name makes the inner {name} a braced quantifier of the first
\* brace, so that the pattern matches that many "{" and one "}"
RefPattern(name) ==
    IF AllDigits(name) THEN Repeat("{", DigitsVal(name)) \o <<"}">>
    ELSE OB \o name \o CB

ListOpen(name) == OB \o <<"#">> \o name \o CB

ListClose(name) == OB \o <<"/">> \o name \o CB

IfOpen(name) == OB \o <<"#", "i", "f", " ">> \o name \o CB

IfClose == OB \o <<"/", "i", "f">> \o CB

UnlessOpen(name) == OB \o <<"#", "u", "n", "l", "e", "s", "s", " ">> \o name \o CB

UnlessClose == OB \o <<"/", "u", "n", "l", "e", "s", "s">> \o CB

\* new RegExp(...) of a pattern built around name: among the characters of
\* the model's names only "(" is a pattern metacharacter, and a pattern with
\* an unclosed group is a SyntaxError
PatternCompiles(name) == \A i \in 1..Len(name) : name[i] # "("

\* a result of a pass: a text, or an exception on its way to the caller
Ok(t) == [ok |-> TRUE, text |-> t]

Thrown == [ok |-> FALSE, text |-> <<>>]

RECURSIVE PlainPass(_, _)
\* vars.forEach: processed = processed.replace(/{{name}}/g, value)
PlainPass(text, vs) ==
    IF vs = <<>> THEN Ok(text)
    ELSE IF ~PatternCompiles(Head(vs).name) THEN Thrown
    ELSE PlainPass(ReplaceAllStr(text, RefPattern(Head(vs).name), Head(vs).value),
                   Tail(vs))

(***************************************************************************)
(* List iteration (pass 2).                                                *)
(***************************************************************************)
RECURSIVE ValToStr(_)
\* ToString of a parsed JSON value, as replace() applies it to item[key]; an
\* array is its elements joined by commas, a null element being empty
ValToStr(v) ==
    CASE v.t = "str" -> v.s
      [] v.t = "num" -> NumToStr(v.n)
      [] v.t = "bool" -> IF v.b THEN <<"t", "r", "u", "e">> ELSE <<"f", "a", "l", "s", "e">>
      [] v.t = "null" -> <<"n", "u", "l", "l">>
      [] v.t = "arr" -> Flatten([i \in 1..Len(v.items) |->
                            (IF i > 1 THEN <<",">> ELSE <<>>)
                            \o (IF v.items[i].t = "null" THEN <<>> ELSE ValToStr(v.items[i]))])
      [] v.t = "obj" -> <<"[", "o", "b", "j", "e", "c", "t", " ",
                          "O", "b", "j", "e", "c", "t", "]">>

\* Object.keys(item) of a non-null item: the keys of an object, the indices
\* of a string or an array, nothing for a number or a boolean
ItemKeys(item) ==
    CASE item.t = "obj" -> item.keys
      [] item.t = "str" -> [i \in 1..Len(item.s) |-> NumToStr(i - 1)]
      [] item.t = "arr" -> [i \in 1..Len(item.items) |-> NumToStr(i - 1)]
      [] OTHER -> <<>>

LastIndex(ks, key) == CHOOSE i \in 1..Len(ks) :
    ks[i] = key /\ \A j \in (i + 1)..Len(ks) : ks[j] # key

\* item[key], for a key of ItemKeys(item)
ItemGet(item, key) ==
    CASE item.t = "obj" -> item.vals[LastIndex(item.keys, key)]
      [] item.t = "str" -> [t |-> "str", s |-> <<item.s[DigitsVal(key) + 1]>>]
      [] item.t = "arr" -> item.items[DigitsVal(key) + 1]

RECURSIVE SubstKeys(_, _, _)
\* Object.keys(item).forEach: itemProcessed.replace(/{{key}}/g, item[key])
SubstKeys(text, item, keys) ==
    IF keys = <<>> THEN Ok(text)
    ELSE IF ~PatternCompiles(Head(keys)) THEN Thrown
    ELSE SubstKeys(ReplaceAllStr(text, RefPattern(Head(keys)),
                                 ValToStr(ItemGet(item, Head(keys)))),
                   item, Tail(keys))

\* RenderItem without the trim of the iteration's text
RenderItem_NoTrim(template, item) ==
    IF item.t = "null" THEN Thrown
    ELSE SubstKeys(template, item, ItemKeys(item))

\* itemProcessed.trim(), unless the substitution threw
Trimmed(r) == IF r.ok THEN Ok(Trim(r.text)) ELSE Thrown

\* one iteration of the map callback: substitute the fields, then trim
RenderItem(template, item) ==
    IF item.t = "null" THEN Thrown
    ELSE Trimmed(SubstKeys(template, item, ItemKeys(item)))

\* the iteration h before the iterations r, unless one of them threw
Cons(h, r) == IF h.ok /\ r.ok THEN Ok(<<h.text>> \o r.text) ELSE Thrown

RECURSIVE RenderItems(_, _)
\* listData.map(...), as the sequence of the iterations' texts
RenderItems(template, items) ==
    IF items = <<>> THEN Ok(<<>>)
    ELSE Cons(RenderItem(template, Head(items)), RenderItems(template, Tail(items)))

\* the text before a region, the iterations r joined, and the rest of the
\* text with its regions replaced, unless a callback threw
Splice(before, r, rest) ==
    IF r.ok /\ rest.ok THEN Ok(before \o JoinNl(r.text) \o rest.text) ELSE Thrown

RECURSIVE ReplaceListRegions(_, _, _)
\* processed.replace(listRegex, callback) for
\* listRegex = /{{#name}}([\s\S]*?){{\/name}}/g
ReplaceListRegions(s, name, items) ==
    LET i == IndexOf(s, ListOpen(name), 1)
        j == IF i = 0 THEN 0 ELSE IndexOf(s, ListClose(name), i + Len(ListOpen(name)))
    IN  IF j = 0 THEN Ok(s)
        ELSE Splice(Take(s, i - 1),
                    RenderItems(SubSeq(s, i + Len(ListOpen(name)), j - 1), items),
                    ReplaceListRegions(Drop(s, j + Len(ListClose(name)) - 1), name, items))

\* the text of a result, or other when it threw
OrElse(r, other) == IF r.ok THEN r.text ELSE other

\* the try block once the value is parsed
ListStepParsed(text, name, listData) ==
    IF ~listData.ok THEN text
    ELSE IF listData.v.t # "arr" THEN text
    ELSE IF ~PatternCompiles(name) THEN text
    ELSE OrElse(ReplaceListRegions(text, name, listData.v.items), text)

\* the body of the try block for one list variable; whatever is thrown in it
\* is caught and leaves processed as it was
ListStep(text, v) == ListStepParsed(text, v.name, JSONParse(v.value))

RECURSIVE ListPass(_, _)
\* vars.filter(v => v.type === 'list').forEach(...)
ListPass(text, vs) ==
    IF vs = <<>> THEN text
    ELSE IF Head(vs).type = "list" THEN ListPass(ListStep(text, Head(vs)), Tail(vs))
    ELSE ListPass(text, Tail(vs))

(***************************************************************************)
(* Conditional and inverse conditional (passes 3 and 4).                   *)
(***************************************************************************)
FalseStr == <<"f", "a", "l", "s", "e">>

\* IfKeeps without the test of '0'
IfKeeps_ZeroTruthy(value) == value # <<>> /\ value # FalseStr

\* variable.value && variable.value !== 'false' && variable.value !== '0'
IfKeeps(value) == value # <<>> /\ value # FalseStr /\ value # <<"0">>

\* !variable.value || variable.value === 'false' || variable.value === '0'
UnlessKeeps(value) == value = <<>> \/ value = FalseStr \/ value = <<"0">>

RECURSIVE ReplaceRegions(_, _, _, _)
\* s.replace(/open([\s\S]*?)close/g, (match, content) => keep ? content : '')
ReplaceRegions(s, open, close, keep) ==
    LET i == IndexOf(s, open, 1)
        j == IF i = 0 THEN 0 ELSE IndexOf(s, close, i + Len(open))
    IN  IF j = 0 THEN s
        ELSE Take(s, i - 1)
             \o (IF keep THEN SubSeq(s, i + Len(open), j - 1) ELSE <<>>)
             \o ReplaceRegions(Drop(s, j + Len(close) - 1), open, close, keep)

RECURSIVE IfPass(_, _)
IfPass(text, vs) ==
    IF vs = <<>> THEN Ok(text)
    ELSE IF ~PatternCompiles(Head(vs).name) THEN Thrown
    ELSE IfPass(ReplaceRegions(text, IfOpen(Head(vs).name), IfClose,
                               IfKeeps(Head(vs).value)), Tail(vs))

RECURSIVE UnlessPass(_, _)
UnlessPass(text, vs) ==
    IF vs = <<>> THEN Ok(text)
    ELSE IF ~PatternCompiles(Head(vs).name) THEN Thrown
    ELSE UnlessPass(ReplaceRegions(text, UnlessOpen(Head(vs).name), UnlessClose,
                                   UnlessKeeps(Head(vs).value)), Tail(vs))

(***************************************************************************)
(* Computed expressions (pass 5).  The source hands the sanitized text to  *)
(* the Function constructor; the evaluator below is JavaScript restricted  *)
(* to identifiers, unsigned decimal integers, binary + and *, parentheses  *)
(* and white space (no ++, **, unary sign, BigInt suffix or global names). *)
(***************************************************************************)
Letters == {"a", "b", "c", "d", "e", "f", "g", "h", "i", "j", "k", "l", "m",
            "n", "o", "p", "q", "r", "s", "t", "u", "v", "w", "x", "y", "z",
            "A", "B", "C", "D", "E", "F", "G", "H", "I", "J", "K", "L", "M",
            "N", "O", "P", "Q", "R", "S", "T", "U", "V", "W", "X", "Y", "Z"}

IdentStart(c) == c \in Letters \/ c = "_"

IdentPart(c) == IdentStart(c) \/ IsDigit(c)

\* a name that can be a parameter of new Function(...)
IsIdentifier(name) ==
    /\ name # <<>>
    /\ IdentStart(name[1])
    /\ \A i \in 2..Len(name) : IdentPart(name[i])

\* [^a-zA-Z0-9_+\-*/\s().] is what the sanitizer removes
SafeChar(c) ==
    c \in Letters \/ IsDigit(c) \/ IsSpace(c) \/ c \in {"_", "+", "-", "*", "/", "(", ")", "."}

RECURSIVE Sanitize(_)
Sanitize(e) ==
    IF e = <<>> THEN <<>>
    ELSE (IF SafeChar(e[1]) THEN <<e[1]>> ELSE <<>>) \o Sanitize(Tail(e))

\* the values of the evaluation
Num(n) == [t |-> "num", n |-> n, s |-> <<>>, b |-> FALSE]

NaN == [t |-> "nan", n |-> 0, s |-> <<>>, b |-> FALSE]

Str(s) == [t |-> "str", n |-> 0, s |-> s, b |-> FALSE]

Bool(b) == [t |-> "bool", n |-> 0, s |-> <<>>, b |-> b]

Undefined == [t |-> "undef", n |-> 0, s |-> <<>>, b |-> FALSE]

\* parseFloat on texts without sign, fraction or exponent
ParseFloat(s) ==
    LET i == SkipWs(s, 1)
        e == DigitRunEnd(s, i)
    IN  IF e < i THEN NaN ELSE Num(DigitsVal(SubSeq(s, i, e)))

\* the binding of one variable in the evaluation context
ContextValue(v) ==
    IF v.type = "number" THEN ParseFloat(v.value)
    ELSE IF v.type = "boolean" THEN Bool(v.value = <<"t", "r", "u", "e">>)
    ELSE Str(v.value)

ToNumber(v) ==
    CASE v.t = "num" -> v
      [] v.t = "bool" -> Num(IF v.b THEN 1 ELSE 0)
      [] v.t = "str" -> IF Trim(v.s) = <<>> THEN Num(0)
                        ELSE IF AllDigits(Trim(v.s)) THEN Num(DigitsVal(Trim(v.s)))
                        ELSE NaN
      [] OTHER -> NaN

\* String(result)
ToStr(v) ==
    CASE v.t = "num" -> NumToStr(v.n)
      [] v.t = "nan" -> <<"N", "a", "N">>
      [] v.t = "str" -> v.s
      [] v.t = "bool" -> IF v.b THEN <<"t", "r", "u", "e">> ELSE FalseStr
      [] v.t = "undef" -> <<"u", "n", "d", "e", "f", "i", "n", "e", "d">>

Add(a, b) ==
    IF a.t = "str" \/ b.t = "str" THEN Str(ToStr(a) \o ToStr(b))
    ELSE IF ToNumber(a).t = "nan" \/ ToNumber(b).t = "nan" THEN NaN
    ELSE Num(ToNumber(a).n + ToNumber(b).n)

Mul(a, b) ==
    IF ToNumber(a).t = "nan" \/ ToNumber(b).t = "nan" THEN NaN
    ELSE Num(ToNumber(a).n * ToNumber(b).n)

EFail == [ok |-> FALSE, v |-> Undefined, next |-> 0]

EOk(v, next) == [ok |-> TRUE, v |-> v, next |-> next]

RECURSIVE IdentEnd(_, _)
IdentEnd(s, i) == IF i <= Len(s) /\ IdentPart(s[i]) THEN IdentEnd(s, i + 1) ELSE i - 1

Bound(vs, name) == \E k \in 1..Len(vs) : vs[k].name = name

\* the last binding wins, as in an object literal built by assignment
Lookup(vs, name) ==
    ContextValue(vs[CHOOSE k \in 1..Len(vs) :
        vs[k].name = name /\ \A j \in (k + 1)..Len(vs) : vs[j].name # name])

RECURSIVE EParse(_, _, _, _, _)
\* the recursive descent, one operator for its productions: "expr" is a sum
\* of terms, "term" a product of primaries, "primary" a number, a bound
\* identifier or a parenthesized expression; "exprRest" and "termRest"
\* continue a sum or a product whose value so far is acc
EParse(mode, s, i0, vs, acc) ==
    LET i == SkipWs(s, i0)
    IN  CASE mode = "primary" ->
               IF i > Len(s) THEN EFail
               ELSE IF IsDigit(s[i]) THEN
                    LET e == DigitRunEnd(s, i)
                    IN  IF e < Len(s) /\ IdentPart(s[e + 1]) THEN EFail
                        ELSE EOk(Num(DigitsVal(SubSeq(s, i, e))), e + 1)
               ELSE IF IdentStart(s[i]) THEN
                    LET e == IdentEnd(s, i)
                        name == SubSeq(s, i, e)
                    IN  IF Bound(vs, name) THEN EOk(Lookup(vs, name), e + 1)
                        ELSE EFail               \* ReferenceError
               ELSE IF s[i] = "(" THEN
                    LET r == EParse("expr", s, i + 1, vs, Undefined)
                        j == SkipWs(s, r.next)
                    IN  IF r.ok /\ MatchAt(s, <<")">>, j) THEN EOk(r.v, j + 1) ELSE EFail
               ELSE EFail
          [] mode = "termRest" ->
               LET r == EParse("primary", s, i + 1, vs, Undefined)
               IN  IF MatchAt(s, <<"*">>, i)
                   THEN IF r.ok THEN EParse("termRest", s, r.next, vs, Mul(acc, r.v))
                        ELSE EFail
                   ELSE EOk(acc, i)
          [] mode = "term" ->
               LET r == EParse("primary", s, i, vs, Undefined)
               IN  IF r.ok THEN EParse("termRest", s, r.next, vs, r.v) ELSE EFail
          [] mode = "exprRest" ->
               LET r == EParse("term", s, i + 1, vs, Undefined)
               IN  IF MatchAt(s, <<"+">>, i)
                   THEN IF r.ok THEN EParse("exprRest", s, r.next, vs, Add(acc, r.v))
                        ELSE EFail
                   ELSE EOk(acc, i)
          [] mode = "expr" ->
               LET r == EParse("term", s, i, vs, Undefined)
               IN  IF r.ok THEN EParse("exprRest", s, r.next, vs, r.v) ELSE EFail

EExpr(s, i, vs) == EParse("expr", s, i, vs, Undefined)

\* a parse r of the whole body
EWhole(safe, r) == IF r.ok /\ r.next = Len(safe) + 1 THEN r ELSE EFail

\* new Function(...Object.keys(context), `return ${safeExpression}`) applied
\* to the values of the context: the value, or an exception (SyntaxError of
\* a parameter name or of the body, ReferenceError of the body)
Evaluate(safe, vs) ==
    IF \E k \in 1..Len(vs) : ~IsIdentifier(vs[k].name) THEN EFail
    ELSE IF SkipWs(safe, 1) > Len(safe) THEN EOk(Undefined, Len(safe) + 1)
    ELSE EWhole(safe, EExpr(safe, 1, vs))

\* String(result), or the matched text when the evaluation threw
ResultOr(r, match) == IF r.ok THEN ToStr(r.v) ELSE match

\* the callback of the computed pass: the text that replaces a span
ComputedReplacement(match, expression, vs) ==
    ResultOr(Evaluate(Sanitize(expression), vs), match)

ExprOpen == OB \o <<"=">>

NoNewline(s, b, e) == \A k \in b..e : s[k] # "\n"

\* the matches of /{{=\s*(.+?)\s*}}/ that start at i, as <<w, m, end>>: w
\* leading white space characters, an expression of m characters, and the
\* position of the last character of the match
ComputedMatches(s, i) ==
    IF ~MatchAt(s, ExprOpen, i) THEN {}
    ELSE LET a == i + 3
             wmax == SkipWs(s, a) - a
         IN  {c \in {<<w, m, SkipWs(s, a + w + m) + 1>> :
                        w \in 0..wmax, m \in 1..(Len(s) - a + 1)} :
                /\ a + c[1] + c[2] - 1 <= Len(s)
                /\ NoNewline(s, a + c[1], a + c[1] + c[2] - 1)
                /\ MatchAt(s, CB, c[3] - 1)}

\* the match the backtracking picks: \s* greedy first, then (.+?) lazy
ComputedMatch(s, i) ==
    CHOOSE c \in ComputedMatches(s, i) :
        \A d \in ComputedMatches(s, i) :
            c[1] > d[1] \/ (c[1] = d[1] /\ c[2] <= d[2])

RECURSIVE ComputedPass(_, _)

\* the text with the match c that starts at i replaced, and the pass
\* continued after it
ComputedSplice(s, vs, i, c) ==
    Take(s, i - 1)
    \o ComputedReplacement(SubSeq(s, i, c[3]),
                           SubSeq(s, i + 3 + c[1], i + 3 + c[1] + c[2] - 1), vs)
    \o ComputedPass(Drop(s, c[3]), vs)

\* the first position of s at which computedRegex matches, 0 if none
ComputedStart(starts) == IF starts = {} THEN 0 ELSE MinOf(starts)

ComputedFrom(s, vs, i) == IF i = 0 THEN s ELSE ComputedSplice(s, vs, i, ComputedMatch(s, i))

\* processed.replace(computedRegex, callback)
ComputedPass(s, vs) ==
    ComputedFrom(s, vs, ComputedStart({i \in 1..Len(s) : ComputedMatches(s, i) # {}}))

(***************************************************************************)
(* processTemplate: the five passes in order.  The record keeps the text   *)
(* after each pass; an exception of a pass is the result of all later ones.*)
(***************************************************************************)
NoRun == [done |-> FALSE, vs |-> <<>>, input |-> <<>>, plain |-> Thrown,
          list |-> Thrown, cond |-> Thrown, unless |-> Thrown, out |-> Thrown]

WithPlain(text, vs) ==
    [NoRun EXCEPT !.done = TRUE, !.vs = vs, !.input = text, !.plain = PlainPass(text, vs)]

WithList(r) ==
    [r EXCEPT !.list = IF r.plain.ok THEN Ok(ListPass(r.plain.text, r.vs)) ELSE Thrown]

WithIf(r) ==
    [r EXCEPT !.cond = IF r.list.ok THEN IfPass(r.list.text, r.vs) ELSE Thrown]

WithUnless(r) ==
    [r EXCEPT !.unless = IF r.cond.ok THEN UnlessPass(r.cond.text, r.vs) ELSE Thrown]

WithComputed(r) ==
    [r EXCEPT !.out = IF r.unless.ok THEN Ok(ComputedPass(r.unless.text, r.vs)) ELSE Thrown]

\* the record of a call: its arguments, the result of each pass, and in out
\* what the caller gets
processTemplate(text, vs) ==
    WithComputed(WithUnless(WithIf(WithList(WithPlain(text, vs)))))

(***************************************************************************)
(* Template expansion as a state machine.  doc is the body as the author   *)
(* composed it, a sequence of nodes; content is its text; run is the       *)
(* record of the last call of processTemplate.                             *)
(***************************************************************************)
MaxNodes == 2

Node(k, n, t, key, post) == [k |-> k, n |-> n, t |-> t, key |-> key, post |-> post]

\* the text of a node, as the author types it
NodeText(nd) ==
    CASE nd.k = "lit" -> nd.t
      [] nd.k = "ref" -> OB \o nd.n \o CB
      [] nd.k = "list" -> ListOpen(nd.n) \o nd.t \o RefPattern(nd.key) \o nd.post \o ListClose(nd.n)
      [] nd.k = "if" -> IfOpen(nd.n) \o nd.t \o IfClose
      [] nd.k = "unless" -> UnlessOpen(nd.n) \o nd.t \o UnlessClose
      [] nd.k = "expr" -> ExprOpen \o nd.t \o CB

DocText(d) == Flatten([i \in 1..Len(d) |-> NodeText(d[i])])

Nodes ==
    { Node("lit", <<>>, <<"Y">>, <<>>, <<>>), Node("lit", <<>>, <<"{", "}">>, <<>>, <<>>),
      Node("ref", <<"x">>, <<>>, <<>>, <<>>), Node("ref", <<"q">>, <<>>, <<>>, <<>>),
      Node("if", <<"x">>, <<"X">>, <<>>, <<>>), Node("unless", <<"x">>, <<"X">>, <<>>, <<>>),
      Node("list", <<"L">>, <<"-">>, <<"k">>, <<"\n">>),
      Node("list", <<"M">>, <<" ">>, <<"k">>, <<>>),
      Node("expr", <<>>, <<" ", "n", "*", "2", " ">>, <<>>, <<>>), Node("expr", <<>>, <<"!">>, <<>>, <<>>),
      Node("expr", <<>>, <<"n", "*">>, <<>>, <<>>), Node("expr", <<>>, <<"u">>, <<>>, <<>>) }

Docs == UNION {[1..m -> Nodes] : m \in 1..MaxNodes}

Variable(name, value, type) == [name |-> name, value |-> value, type |-> type]

\* JSON.stringify of a list of records with the one field k, as the built-in
\* templates write their list values
RecordsJSON ==
    <<"[", "{", "\"", "k", "\"", ":", "\"", "A", "\"", "}", ",",
           "{", "\"", "k", "\"", ":", "\"", "B", "\"", "}", "]">>

\* the variable sets: x over the values the conditionals tell apart and
\* the replacement patterns, L over texts JSON.parse takes and refuses, and
\* further variables for the computed pass
VarSets ==
    LET XValues == { <<>>, <<"0">>, FalseStr, <<"A">>, <<"$", "&">>, <<"$", "$">> }
        LValues == { RecordsJSON, <<"[">>, <<"[", "1", "]">>, <<"[", "n", "u", "l", "l", "]">>,
                     <<"{", "}">>, <<"[", "]">> }
        Extras == { <<>>,
                    <<Variable(<<"n">>, <<"3">>, "number")>>,
                    <<Variable(<<"n">>, <<"A">>, "number")>>,
                    <<Variable(<<"-">>, <<"A">>, "text")>>,
                    <<Variable(<<"(">>, <<"A">>, "text")>> }
        BaseVars(xv, lv) ==
            <<Variable(<<"x">>, xv, "text"), Variable(<<"L">>, lv, "list"),
              Variable(<<"M">>, RecordsJSON, "list")>>
    IN  { BaseVars(xv, RecordsJSON) : xv \in XValues }
        \cup { BaseVars(<<"A">>, lv) \o ex : lv \in LValues, ex \in Extras }

\* no component scan yet
NoSmart == [done |-> FALSE]

\* the coordinator is not running
NoPipe == [mounted |-> FALSE]

\* the auto-save hook is not running
NoAutoSave == [mounted |-> FALSE]

\* the variables hook is not running
NoTemplates == <<>>

\* the export history store is not created
NoExportHistory == [created |-> FALSE]

\* the App's settings and exports are not modelled
NoApp == [rendered |-> FALSE]

\* the command palette before it is rendered
NoPalette == [isOpen |-> FALSE]

\* localStorage without items (a function from the keys of the items to
\* their values)
NoStorage == [key \in {} |-> <<>>]

InitTemplate ==
    /\ doc \in Docs
    /\ content = DocText(doc)
    /\ variables \in VarSets
    /\ run = NoRun
    /\ smart = NoSmart
    /\ pipe = NoPipe
    /\ tick = FALSE
    /\ palette = NoPalette
    /\ app = NoApp
    /\ exportHistory = NoExportHistory
    /\ localStorage = NoStorage
    /\ templates = NoTemplates
    /\ autoSave = NoAutoSave

\* getProcessedContent: processTemplate(content, variables)
GetProcessedContent ==
    /\ run.input # content \/ ~run.done
    /\ run' = processTemplate(content, variables)
    /\ UNCHANGED <<doc, content, variables, smart, pipe, tick, autoSave, templates, localStorage, exportHistory, app, palette>>

\* the expanded text becomes the editor's content (loadTemplate hands the
\* processed content to its caller)
SetContent ==
    /\ run.done
    /\ run.out.ok
    /\ run.out.text # content
    /\ content' = run.out.text
    /\ UNCHANGED <<doc, variables, run, smart, pipe, tick, autoSave, templates, localStorage, exportHistory, app, palette>>

NextTemplate == GetProcessedContent \/ SetContent

SpecTemplate == InitTemplate /\ [][NextTemplate]_vars

(***************************************************************************)
(* Properties of template expansion.  They are stated on the nodes of doc, *)
(* for the first expansion of its text.                                    *)
(***************************************************************************)
FirstRun == run.done /\ run.input = DocText(doc)

Declared(vs, name) == \E k \in 1..Len(vs) : vs[k].name = name

ValueOf(vs, name) == vs[CHOOSE k \in 1..Len(vs) : vs[k].name = name].value

HasNode(k, n) == \E i \in 1..Len(doc) : doc[i].k = k /\ doc[i].n = n

\* a node with every reference to a declared variable replaced by its value
RawNode(nd, vs) ==
    IF nd.k = "ref" /\ Declared(vs, nd.n) THEN ValueOf(vs, nd.n) ELSE NodeText(nd)

\* C1: after plain substitution every {{name}} of a declared variable is the
\* variable's raw value, whatever the value contains.
C1_PlainSubstitutionRaw ==
    (FirstRun /\ run.plain.ok) =>
        run.plain.text = Flatten([i \in 1..Len(doc) |-> RawNode(doc[i], run.vs)])

\* the k fields of the records of a list value that is a list of records
FieldsOf(value) == IF value = RecordsJSON THEN << <<"A">>, <<"B">> >> ELSE <<>>

IsRecords(value) == value = RecordsJSON \/ value = <<"[", "]">>

\* the text of a node after the plain pass
AfterPlain(nd, vs) == PlainPass(NodeText(nd), vs).text

\* every list region of doc names a list variable whose value is a list of
\* records
ListsAreRecords(vs) ==
    \A i \in 1..Len(doc) : doc[i].k = "list" =>
        Declared(vs, doc[i].n) /\ IsRecords(ValueOf(vs, doc[i].n))

Copies(nd, fields) == [j \in 1..Len(fields) |-> nd.t \o fields[j] \o nd.post]

\* C2 as claimed: a list region is replaced by one copy of its template per
\* record, in record order, nothing removed and nothing inserted.
C2_ListConcatenation ==
    (FirstRun /\ run.plain.ok /\ ListsAreRecords(run.vs)) =>
        run.list.text = Flatten([i \in 1..Len(doc) |->
            IF doc[i].k = "list"
            THEN Flatten(Copies(doc[i], FieldsOf(ValueOf(run.vs, doc[i].n))))
            ELSE AfterPlain(doc[i], run.vs)])

TrimmedCopies(nd, fields) == [j \in 1..Len(fields) |-> Trim(nd.t \o fields[j] \o nd.post)]

\* C2 amended: a list region is replaced by one copy of its template per
\* record, in record order, each copy trimmed of the white space at its ends
\* and the copies joined by one newline.
C2_ListTrimmedJoined ==
    (FirstRun /\ run.plain.ok /\ ListsAreRecords(run.vs)) =>
        run.list.text = Flatten([i \in 1..Len(doc) |->
            IF doc[i].k = "list"
            THEN JoinNl(TrimmedCopies(doc[i], FieldsOf(ValueOf(run.vs, doc[i].n))))
            ELSE AfterPlain(doc[i], run.vs)])

C2_Witness ==
    /\ FirstRun
    /\ run.plain.ok
    /\ HasNode("list", <<"L">>)
    /\ ValueOf(run.vs, <<"L">>) = RecordsJSON
    /\ Includes(run.list.text, <<"-", "A", "\n", "-", "B">>)
    /\ ~Includes(run.list.text, <<"-", "B", "\n">>)

\* the text of a node after the list pass
AfterList(nd, vs) == ListPass(AfterPlain(nd, vs), vs)

Truthy(value) == value \notin {<<>>, <<"f", "a", "l", "s", "e">>, <<"0">>}

\* C3: the conditional pass replaces every {{#if x}}C{{/if}} of a declared x
\* by C when x's value is non-empty and neither "false" nor "0" and removes
\* it otherwise; the inverse pass then does the opposite for every
\* {{#unless x}}C{{/unless}}.
C3_Conditionals ==
    (FirstRun /\ run.list.ok) =>
        /\ run.cond = Ok(Flatten([i \in 1..Len(doc) |->
              IF doc[i].k = "if" /\ Declared(run.vs, doc[i].n)
              THEN (IF Truthy(ValueOf(run.vs, doc[i].n)) THEN doc[i].t ELSE <<>>)
              ELSE AfterList(doc[i], run.vs)]))
        /\ run.unless = Ok(Flatten([i \in 1..Len(doc) |->
              IF doc[i].k \in {"if", "unless"} /\ Declared(run.vs, doc[i].n)
              THEN (IF Truthy(ValueOf(run.vs, doc[i].n)) = (doc[i].k = "if")
                    THEN doc[i].t ELSE <<>>)
              ELSE AfterList(doc[i], run.vs)]))

C3_Witness ==
    /\ FirstRun
    /\ doc = <<Node("if", <<"x">>, <<"X">>, <<>>, <<>>), Node("unless", <<"x">>, <<"X">>, <<>>, <<>>)>>
    /\ ValueOf(run.vs, <<"x">>) = <<"0">>
    /\ run.cond = Ok(NodeText(Node("unless", <<"x">>, <<"X">>, <<>>, <<>>)))
    /\ run.unless = Ok(<<"X">>)

\* C4: processTemplate returns a text for every body and every variable set.
C4_NeverRaises == run.done => run.out.ok

\* a list value that is not a list of records
NotRecords(value) ==
    value \in { <<"[">>, <<"[", "1", "]">>, <<"[", "n", "u", "l", "l", "]">>, <<"{", "}">> }

\* C8: when the value of a list variable is not a list of records, the list
\* pass leaves every region of that variable as it was and still replaces
\* the regions of the other list variables, and the later passes run.
C8_ListParseFailure ==
    (FirstRun /\ run.plain.ok /\ NotRecords(ValueOf(run.vs, <<"L">>))) =>
        /\ run.list = Ok(Flatten([i \in 1..Len(doc) |->
              IF doc[i].k = "list" /\ doc[i].n = <<"L">> THEN NodeText(doc[i])
              ELSE IF doc[i].k = "list"
              THEN JoinNl(TrimmedCopies(doc[i], FieldsOf(ValueOf(run.vs, doc[i].n))))
              ELSE AfterPlain(doc[i], run.vs)]))
        /\ run.out.ok

\* the text of a node after the inverse conditional pass
AfterUnless(nd, vs) ==
    UnlessPass(IfPass(AfterList(nd, vs), vs).text, vs).text

\* the expressions of Nodes that cannot be evaluated: empty once sanitized,
\* a syntax error, an unknown identifier; and any expression when a variable
\* name is not an identifier or its identifier n is not declared
FailsToEvaluate(nd, vs) ==
    \/ nd.t \in {<<"!">>, <<"n", "*">>, <<"u">>}
    \/ ~Declared(vs, <<"n">>)
    \/ \E k \in 1..Len(vs) : ~IsIdentifier(vs[k].name)

\* C9: a computed span whose expression cannot be evaluated is left in the
\* output as the author wrote it.
C9_FailedExpressionKept ==
    (FirstRun /\ run.unless.ok
       /\ \A i \in 1..Len(doc) : doc[i].k = "expr" => FailsToEvaluate(doc[i], run.vs)) =>
        run.out = Ok(Flatten([i \in 1..Len(doc) |->
            IF doc[i].k = "expr" THEN NodeText(doc[i]) ELSE AfterUnless(doc[i], run.vs)]))

\* a text without any {{...}} marker
NoMarker(t) ==
    ~\E i \in 1..Len(t) : MatchAt(t, OB, i) /\ IndexOf(t, CB, i + 2) # 0

\* C10: expanding a text that contains no {{...}} marker returns it
\* unchanged, for every variable set.
C10_Idempotent == (run.done /\ NoMarker(run.input)) => run.out = Ok(run.input)

(***************************************************************************)
(* Regular expressions of the component scanner and of the image resolver. *)
(* A match is [found, index, content, g1, g2]: index is match.index (from  *)
(* 0), content is match[0], g1 and g2 are the capture groups; a group that *)
(* did not take part is NoGroup.                                           *)
(***************************************************************************)
NoMatch == [found |-> FALSE, index |-> 0, content |-> <<>>, g1 |-> <<>>, g2 |-> <<>>]

NoGroup == <<"undefined">>

Found(s, i, last, g1, g2) ==
    [found |-> TRUE, index |-> i - 1, content |-> SubSeq(s, i, last), g1 |-> g1, g2 |-> g2]

\* the backquote character, which a TLA+ string cannot hold
BQ == "~"

\* /```name\n([\s\S]*?)```/ at i, for the opener o
Fenced(s, o, i) ==
    LET j == IndexOf(s, <<BQ, BQ, BQ>>, i + Len(o))
    IN  IF MatchAt(s, o, i) /\ j # 0
        THEN Found(s, i, j + 2, SubSeq(s, i + Len(o), j - 1), NoGroup)
        ELSE NoMatch

\* /```name?\n([\s\S]*?)```/ at i, the last letter of name being optional
FencedOpt(s, name, i) ==
    IF MatchAt(s, <<BQ, BQ, BQ>> \o name \o <<"\n">>, i) THEN Fenced(s, <<BQ, BQ, BQ>> \o name \o <<"\n">>, i)
    ELSE Fenced(s, <<BQ, BQ, BQ>> \o Take(name, Len(name) - 1) \o <<"\n">>, i)

\* /:::(info|warning|error|success|tip)\n([\s\S]*?):::/ at i
AlertAt(s, i) ==
    LET AlertTypes == << <<"i", "n", "f", "o">>, <<"w", "a", "r", "n", "i", "n", "g">>, <<"e", "r", "r", "o", "r">>, <<"s", "u", "c", "c", "e", "s", "s">>, <<"t", "i", "p">> >>
        Open(k) == <<":", ":", ":">> \o AlertTypes[k] \o <<"\n">>
        ts == {t \in 1..Len(AlertTypes) : MatchAt(s, Open(t), i)}
        k == CHOOSE t \in ts : TRUE
        j == IndexOf(s, <<":", ":", ":">>, i + Len(Open(k)))
    IN  IF ts # {} /\ j # 0
        THEN Found(s, i, j + 2, AlertTypes[k], SubSeq(s, i + Len(Open(k)), j - 1))
        ELSE NoMatch

\* /\[progress:(\d+)(?::(.+?))?\]/ at i: d is the position after the digits,
\* c the first ] that can end a label and nl the first line break after d
ProgressAt(s, i) ==
    LET from == i + Len(<<"[", "p", "r", "o", "g", "r", "e", "s", "s", ":">>)
        d == DigitRunEnd(s, from) + 1
        c == IndexOf(s, <<"]">>, d + 2)
        nl == IndexOf(s, <<"\n">>, d + 1)
    IN  IF ~MatchAt(s, <<"[", "p", "r", "o", "g", "r", "e", "s", "s", ":">>, i) \/ d = from \/ d > Len(s) THEN NoMatch
        ELSE IF s[d] = ":" /\ c # 0 /\ (nl = 0 \/ nl > c)
             THEN Found(s, i, c, SubSeq(s, from, d - 1), SubSeq(s, d + 1, c - 1))
        ELSE IF s[d] = "]" THEN Found(s, i, d, SubSeq(s, from, d - 1), NoGroup)
        ELSE NoMatch

\* /!\[([^\]]*)\]\(([^)]+)\)/ at i: a is the ] that ends the alt text, p the
\* ) that ends the path
StandardImageAt(s, i) ==
    LET a == IndexOf(s, <<"]">>, i + 2)
        p == IndexOf(s, <<")">>, a + 2)
    IN  IF MatchAt(s, <<"!", "[">>, i) /\ a # 0 /\ MatchAt(s, <<"(">>, a + 1) /\ p > a + 2
        THEN Found(s, i, p, SubSeq(s, i + 2, a - 1), SubSeq(s, a + 2, p - 1))
        ELSE NoMatch

\* /!\[\[([^\]|]+)(?:\|([^\]]+))?\]\]/ at i: e is the position after the
\* path, f the ] that ends the size suffix
ObsidianImageAt(s, i) ==
    LET es == {j \in (i + 3)..Len(s) : s[j] \in {"]", "|"}}
        e == MinOf(es)
        f == IndexOf(s, <<"]">>, e + 1)
    IN  IF ~MatchAt(s, <<"!", "[", "[">>, i) \/ es = {} \/ e = i + 3 THEN NoMatch
        ELSE IF s[e] = "]"
             THEN (IF MatchAt(s, <<"]", "]">>, e)
                   THEN Found(s, i, e + 1, SubSeq(s, i + 3, e - 1), NoGroup)
                   ELSE NoMatch)
        ELSE IF f > e + 1 /\ MatchAt(s, <<"]", "]">>, f)
             THEN Found(s, i, f + 1, SubSeq(s, i + 3, e - 1), SubSeq(s, e + 1, f - 1))
        ELSE NoMatch

\* the match of the regular expression re at position i of s
RegExpAt(re, s, i) ==
    CASE re = "chart" -> Fenced(s, <<BQ, BQ, BQ, "c", "h", "a", "r", "t", "\n">>, i)
      [] re = "timeline" -> Fenced(s, <<BQ, BQ, BQ, "t", "i", "m", "e", "l", "i", "n", "e", "\n">>, i)
      [] re = "progress" -> ProgressAt(s, i)
      [] re = "tasks" -> FencedOpt(s, <<"t", "a", "s", "k", "s">>, i)
      [] re = "alert" -> AlertAt(s, i)
      [] re = "stats" -> FencedOpt(s, <<"s", "t", "a", "t", "s">>, i)
      [] re = "standardImage" -> StandardImageAt(s, i)
      [] re = "obsidianImage" -> ObsidianImageAt(s, i)

\* the matches of a global regular expression from position from on, in the
\* order in which exec (or matchAll) returns them
RECURSIVE ExecAll(_, _, _)
ExecAll(re, s, from) ==
    LET m == RegExpAt(re, s, from)
    IN  IF from > Len(s) THEN <<>>
        ELSE IF m.found THEN <<m>> \o ExecAll(re, s, m.index + Len(m.content) + 1)
        ELSE ExecAll(re, s, from + 1)

(***************************************************************************)
(* useSmartComponents: the component scanner, the placeholder rewriter and *)
(* the component map.  A component is the element the scanner builds: its  *)
(* kind, its React key (name and number) and the values its properties are *)
(* computed from.                                                          *)
(***************************************************************************)
UpperCase == << "A", "B", "C", "D", "E", "F", "G", "H", "I", "J", "K", "L", "M",
                "N", "O", "P", "Q", "R", "S", "T", "U", "V", "W", "X", "Y", "Z" >>

LowerCase == << "a", "b", "c", "d", "e", "f", "g", "h", "i", "j", "k", "l", "m",
                "n", "o", "p", "q", "r", "s", "t", "u", "v", "w", "x", "y", "z" >>

\* s with every character that is in from replaced by the one at the same
\* place in to
MapCase(s, from, to) ==
    [k \in 1..Len(s) |->
        IF \E c \in 1..26 : from[c] = s[k]
        THEN to[CHOOSE c \in 1..26 : from[c] = s[k]] ELSE s[k]]

ToLowerCase(s) == MapCase(s, UpperCase, LowerCase)

ToUpperCase(s) == MapCase(s, LowerCase, UpperCase)

\* lines[0]?.toLowerCase() of a chart block
ChartType(m) ==
    LET chartContent == Trim(m.g1)
        nl == IndexOf(chartContent, <<"\n">>, 1)
    IN  ToLowerCase(IF nl = 0 THEN chartContent ELSE Take(chartContent, nl - 1))

\* String.prototype.split('\n')
RECURSIVE SplitLines(_)
SplitLines(s) ==
    IF IndexOf(s, <<"\n">>, 1) = 0 THEN << s >>
    ELSE << Take(s, IndexOf(s, <<"\n">>, 1) - 1) >> \o SplitLines(Drop(s, IndexOf(s, <<"\n">>, 1)))

\* the TaskList component of the given task lines: a line is completed when
\* it starts with [x] or [X]; its text is the line without a leading
\* /^\[[xX\s]\]\s*/; the percentage is Math.round(completed / total * 100),
\* which is NaN for no line
TaskList(tasks) ==
    LET Completed(task) == MatchAt(task, <<"[", "x", "]">>, 1) \/ MatchAt(task, <<"[", "X", "]">>, 1)
        Boxed(task) ==
            /\ Len(task) >= 3
            /\ task[1] = "[" /\ task[3] = "]"
            /\ (task[2] \in {"x", "X"} \/ IsSpace(task[2]))
        completedCount == Cardinality({k \in 1..Len(tasks) : Completed(tasks[k])})
    IN  [parsedTasks |->
             [k \in 1..Len(tasks) |->
                 [completed |-> Completed(tasks[k]),
                  text |-> IF Boxed(tasks[k]) THEN TrimStart(Drop(tasks[k], 3)) ELSE tasks[k]]],
         completedCount |-> completedCount,
         percentage |->
             IF Len(tasks) = 0 THEN NaN
             ELSE Num((200 * completedCount + Len(tasks)) \div (2 * Len(tasks)))]

\* the element with its properties lost
Element_NoProps(el, keyName, props) == [el |-> el, key |-> keyName, n |-> 0, props |-> <<>>]

Element(el, keyName, props) == [el |-> el, key |-> keyName, n |-> 0, props |-> props]

\* the component of a match of the scanner of the kind type
ComponentOf(type, m) ==
    CASE type = "chart" ->
           Element(IF ChartType(m) \in { <<"b", "a", "r">>, <<"l", "i", "n", "e">> } THEN "BarChart" ELSE "PieChart",
                   "chart", << ChartType(m), Trim(m.g1) >>)
      [] type = "timeline" -> Element("Timeline", "timeline", << Trim(m.g1) >>)
      [] type = "progress" -> Element("ProgressBar", "progress", << DigitsVal(m.g1), m.g2 >>)
      [] type = "tasks" ->
           Element("TaskList", "tasks",
                   << SelectSeq(SplitLines(Trim(m.g1)), LAMBDA line : Trim(line) # <<>>) >>)
      [] type = "alert" -> Element("Alert", "alert", << m.g1, Trim(m.g2) >>)
      [] type = "stats" -> Element("div", "stats", << Trim(m.g1) >>)

\* a chart block is a component only with one of the four chart types
Emitted(type, m) ==
    type # "chart" \/ ChartType(m) \in { <<"b", "a", "r">>, <<"l", "i", "n", "e">>, <<"p", "i", "e">>, <<"d", "o", "n", "u", "t">> }

\* components.push for the matches ms of one scanner, in match order; the
\* key of a component is numbered by componentKey, the number of components
\* pushed before it
RECURSIVE PushAll(_, _, _)
PushAll(components, type, ms) ==
    IF ms = <<>> THEN components
    ELSE IF ~Emitted(type, Head(ms)) THEN PushAll(components, type, Tail(ms))
    ELSE PushAll(
           Append(components,
                  [type |-> type, startIndex |-> Head(ms).index,
                   endIndex |-> Head(ms).index + Len(Head(ms).content),
                   content |-> Head(ms).content,
                   component |-> [ComponentOf(type, Head(ms)) EXCEPT !.n = Len(components)]]),
           type, Tail(ms))

ScanOrder == << "chart", "timeline", "progress", "tasks", "alert", "stats" >>

RECURSIVE ScanFrom(_, _, _)
ScanFrom(components, markdown, k) ==
    IF k > Len(ScanOrder) THEN components
    ELSE ScanFrom(PushAll(components, ScanOrder[k], ExecAll(ScanOrder[k], markdown, 1)),
                  markdown, k + 1)

\* c put after the descriptors of sorted that do not start after it
InsertByStart(sorted, c) ==
    LET k == Cardinality({j \in 1..Len(sorted) : sorted[j].startIndex <= c.startIndex})
    IN  Take(sorted, k) \o <<c>> \o Drop(sorted, k)

\* Array.prototype.sort with (a, b) => a.startIndex - b.startIndex: stable
RECURSIVE SortByStart(_)
SortByStart(cs) ==
    IF cs = <<>> THEN <<>>
    ELSE InsertByStart(SortByStart(Take(cs, Len(cs) - 1)), cs[Len(cs)])

\* the memo smartComponents
smartComponents(markdown) == SortByStart(ScanFrom(<<>>, markdown, 1))

Placeholder(index) == <<"<", "!", "-", "-", "S", "M", "A", "R", "T", "_", "C", "O", "M", "P", "O", "N", "E", "N", "T", "_">> \o NumToStr(index) \o <<"-", "-", ">">>

RECURSIVE transformMarkdown(_, _, _)
\* the forEach of transformMarkdown from the descriptor of the given index on
transformMarkdown(md, components, index) ==
    IF index >= Len(components) THEN md
    ELSE transformMarkdown(
           ReplaceFirstStr(md, components[index + 1].content, Placeholder(index)),
           components, index + 1)

componentMap(components) ==
    [key \in {Placeholder(k - 1) : k \in 1..Len(components)} |->
        components[CHOOSE k \in 1..Len(components) : Placeholder(k - 1) = key].component]

\* what the hook returns, given the memo smartComponents
Scanned(markdown, components) ==
    [done |-> TRUE, markdown |-> markdown, smartComponents |-> components,
     enhancedMarkdown |-> transformMarkdown(markdown, components, 0),
     componentMap |-> componentMap(components),
     hasSmartComponents |-> Len(components) > 0]

useSmartComponents(markdown) == Scanned(markdown, smartComponents(markdown))

(***************************************************************************)
(* The image index and the image resolver.  The index (imageMap) is a      *)
(* function from paths to embedded data.                                   *)
(***************************************************************************)
EmptyMap == [path \in {} |-> <<>>]

\* if (base64Data) after imageMap.get(path)
HasData(imageMap, path) == path \in DOMAIN imageMap /\ imageMap[path] # <<>>

\* the path of a reference: group 2 of the standard form, group 1 of the
\* Obsidian form
ImagePath(form, m) == IF form = "standardImage" THEN m.g2 ELSE m.g1

\* the loop over the matches ms of one form: a reference whose path has data
\* is replaced, at its first occurrence, by ![group 1](data)
RECURSIVE ReplaceImages(_, _, _, _)
ReplaceImages(processed, form, ms, imageMap) ==
    IF ms = <<>> THEN processed
    ELSE IF ~HasData(imageMap, ImagePath(form, Head(ms)))
         THEN ReplaceImages(processed, form, Tail(ms), imageMap)
    ELSE ReplaceImages(
           ReplaceFirstStr(processed, Head(ms).content,
                           <<"!", "[">> \o Head(ms).g1 \o <<"]", "(">> \o imageMap[ImagePath(form, Head(ms))] \o <<")">>),
           form, Tail(ms), imageMap)

\* the loop over the standard references of the text, then the loop over the
\* Obsidian references of the text the first loop has left
processMarkdownImages(markdown, imageMap) ==
    ReplaceImages(
        ReplaceImages(markdown, "standardImage", ExecAll("standardImage", markdown, 1), imageMap),
        "obsidianImage",
        ExecAll("obsidianImage",
                ReplaceImages(markdown, "standardImage", ExecAll("standardImage", markdown, 1), imageMap),
                1),
        imageMap)

\* the paths of the matches ms of one form; of the standard form only those
\* that do not start with http://, https:// or data:
RECURSIVE PathsOf(_, _)
PathsOf(form, ms) ==
    IF ms = <<>> THEN <<>>
    ELSE (IF \/ form = "obsidianImage"
             \/ /\ ~MatchAt(Head(ms).g2, <<"h", "t", "t", "p", ":", "/", "/">>, 1)
                /\ ~MatchAt(Head(ms).g2, <<"h", "t", "t", "p", "s", ":", "/", "/">>, 1)
                /\ ~MatchAt(Head(ms).g2, <<"d", "a", "t", "a", ":">>, 1)
          THEN << ImagePath(form, Head(ms)) >> ELSE <<>>) \o PathsOf(form, Tail(ms))

\* [...new Set(paths)]: the first occurrence of every path, in order
RECURSIVE Unique(_)
Unique(ps) ==
    IF ps = <<>> THEN <<>>
    ELSE Unique(Take(ps, Len(ps) - 1))
         \o (IF \E k \in 1..(Len(ps) - 1) : ps[k] = ps[Len(ps)] THEN <<>> ELSE << ps[Len(ps)] >>)

extractImagePaths(markdown) ==
    Unique(PathsOf("standardImage", ExecAll("standardImage", markdown, 1))
           \o PathsOf("obsidianImage", ExecAll("obsidianImage", markdown, 1)))

\* the counts of the required paths the index has and has not
MatchStatus(paths, imageMap) ==
    [matched |-> Cardinality({k \in 1..Len(paths) : paths[k] \in DOMAIN imageMap}),
     unmatched |-> Cardinality({k \in 1..Len(paths) : paths[k] \notin DOMAIN imageMap}),
     total |-> Len(paths)]

getImageMatchStatus(markdown, imageMap) == MatchStatus(extractImagePaths(markdown), imageMap)

\* the variations, were only the name itself indexed
generatePathVariations_NameOnly(filename) == << filename >>

\* the twelve prefixed forms of a file name and, when /\.[^/.]+$/ matches it
\* (at d), the name with its extension in lower and in upper case
generatePathVariations(filename) ==
    LET PathPrefixes ==
            << <<>>, <<".", "/">>, <<"i", "m", "a", "g", "e", "s", "/">>, <<".", "/", "i", "m", "a", "g", "e", "s", "/">>, <<"a", "s", "s", "e", "t", "s", "/">>, <<".", "/", "a", "s", "s", "e", "t", "s", "/">>,
               <<"i", "m", "g", "/">>, <<".", "/", "i", "m", "g", "/">>, <<"p", "i", "c", "s", "/">>, <<".", "/", "p", "i", "c", "s", "/">>, <<"m", "e", "d", "i", "a", "/">>, <<".", "/", "m", "e", "d", "i", "a", "/">> >>
        ds == {d \in 1..(Len(filename) - 1) :
                  /\ filename[d] = "."
                  /\ \A j \in (d + 1)..Len(filename) : filename[j] \notin {"/", "."}}
        d == CHOOSE x \in ds : TRUE
    IN  [k \in 1..Len(PathPrefixes) |-> PathPrefixes[k] \o filename]
        \o (IF ds = {} THEN <<>>
            ELSE << Take(filename, d - 1) \o ToLowerCase(Drop(filename, d - 1)),
                    Take(filename, d - 1) \o ToUpperCase(Drop(filename, d - 1)) >>)

\* variations.forEach(path => newImageMap.set(path, base64))
SetAll(imageMap, paths, base64) ==
    [path \in DOMAIN imageMap \cup {paths[k] : k \in 1..Len(paths)} |->
        IF \E k \in 1..Len(paths) : paths[k] = path THEN base64 ELSE imageMap[path]]

(***************************************************************************)
(* The scan and rewrite of a text as a state machine.  doc is the text as  *)
(* the author composed it, a sequence of blocks; content is its text;      *)
(* smart is what useSmartComponents returns for it.                        *)
(***************************************************************************)
MaxBlocks == 2

Blocks ==
    { <<"Y">>, <<"\n">>,
      <<"[", "p", "r", "o", "g", "r", "e", "s", "s", ":", "5", "]">>,
      <<"[", "p", "r", "o", "g", "r", "e", "s", "s", ":", "4", "2", ":", "D", "o", "n", "e", "]">>,
      <<"[", "p", "r", "o", "g", "r", "e", "s", "s", ":", "1", "0", "0", ":", "x", ":", "y", "]">>,
      <<BQ, BQ, BQ, "c", "h", "a", "r", "t", "\n", "b", "a", "r", "\n", "A", ":", "1", "\n", BQ, BQ, BQ>>,
      <<BQ, BQ, BQ, "c", "h", "a", "r", "t", "\n", "p", "i", "e", "\n", "[", "p", "r", "o", "g", "r", "e", "s", "s", ":", "5", "]", "\n", BQ, BQ, BQ>>,
      <<BQ, BQ, BQ, "c", "h", "a", "r", "t", "\n", "f", "o", "o", "\n", "A", ":", "1", "\n", BQ, BQ, BQ>>,
      <<BQ, BQ, BQ, "c", "h", "a", "r", "t", "\n", "f", "o", "o", "\n", "[", "p", "r", "o", "g", "r", "e", "s", "s", ":", "5", "]", "\n", BQ, BQ, BQ>>,
      <<BQ, BQ, BQ, "c", "h", "a", "r", "t", "\n", "f", "o", "o", "\n", BQ, BQ, BQ, "c", "h", "a", "r", "t", "\n", "b", "a", "r", "\n", "A", ":", "1", "\n", BQ, BQ, BQ>>,
      <<":", ":", ":", "i", "n", "f", "o", "\n", "Y", "\n", ":", ":", ":">>,
      <<":", ":", ":", "t", "i", "p", "\n", "[", "p", "r", "o", "g", "r", "e", "s", "s", ":", "5", "]", "\n", ":", ":", ":">>,
      <<BQ, BQ, BQ, "t", "a", "s", "k", "s", "\n", "[", "x", "]", " ", "a", "\n", "[", " ", "]", " ", "b", "\n", BQ, BQ, BQ>>,
      <<BQ, BQ, BQ, "t", "a", "s", "k", "s", "\n", "[", "X", "]", " ", "a", "\n", "\n", "[", "x", "]", "b", "\n", " ", "x", "\n", BQ, BQ, BQ>>,
      <<BQ, BQ, BQ, "t", "a", "s", "k", "s", "\n", BQ, BQ, BQ>>,
      <<BQ, BQ, BQ, "t", "i", "m", "e", "l", "i", "n", "e", "\n", "1", ":", " ", "a", "\n", BQ, BQ, BQ>>,
      <<BQ, BQ, BQ, "s", "t", "a", "t", "s", "\n", "A", "|", "1", "\n", BQ, BQ, BQ>>,
      <<"<", "!", "-", "-", "S", "M", "A", "R", "T", "_", "C", "O", "M", "P", "O", "N", "E", "N", "T", "_", "0", "-", "-", ">">> }

ScanDocs == UNION {[1..m -> Blocks] : m \in 1..MaxBlocks}

InitScan ==
    /\ doc \in ScanDocs
    /\ content = Flatten(doc)
    /\ variables = <<>>
    /\ run = NoRun
    /\ smart = NoSmart
    /\ pipe = NoPipe
    /\ tick = FALSE
    /\ palette = NoPalette
    /\ app = NoApp
    /\ exportHistory = NoExportHistory
    /\ localStorage = NoStorage
    /\ templates = NoTemplates
    /\ autoSave = NoAutoSave

\* the hook is rendered with the text
Scan ==
    /\ ~smart.done
    /\ smart' = useSmartComponents(content)
    /\ UNCHANGED <<doc, content, variables, run, pipe, tick, autoSave, templates, localStorage, exportHistory, app, palette>>

SpecScan == InitScan /\ [][Scan]_vars

(***************************************************************************)
(* Properties of the scan and rewrite.                                     *)
(***************************************************************************)
Occurrences(s, p) == Cardinality({i \in 1..Len(s) : MatchAt(s, p, i)})

\* the text with the raw text of every descriptor put back at its marker
RECURSIVE Restored(_, _, _)
Restored(text, components, index) ==
    IF index >= Len(components) THEN text
    ELSE Restored(ReplaceFirstStr(text, Placeholder(index), components[index + 1].content),
                  components, index + 1)

\* no marker of the rewriter is in the text
MarkerFree(text) == ~Includes(text, <<"<", "!", "-", "-", "S", "M", "A", "R", "T", "_", "C", "O", "M", "P", "O", "N", "E", "N", "T", "_">>)

\* C6: after scan and rewrite every marker key of the component map occurs
\* exactly once in the rewritten text, at the site of its descriptor (putting
\* the raw texts back at the markers gives the text scanned), also when
\* descriptors nest; stated for the texts in which the author typed no marker.
C6_EveryMarkerOnce ==
    (smart.done /\ MarkerFree(smart.markdown)) =>
        /\ \A key \in DOMAIN smart.componentMap :
              Occurrences(smart.enhancedMarkdown, key) = 1
        /\ Restored(smart.enhancedMarkdown, smart.smartComponents, 0) = smart.markdown

\* C7: no marker key of the component map occurs in the text before the
\* rewrite, and so none occurs more than once after it.
C7_MarkersNotInAuthorText ==
    smart.done =>
        \A key \in DOMAIN smart.componentMap :
            /\ ~Includes(smart.markdown, key)
            /\ Occurrences(smart.enhancedMarkdown, key) <= 1

\* the descriptors of the kind type, in the order of smartComponents
OfType(components, type) == SelectSeq(components, LAMBDA c : c.type = type)

\* the inline progress markers [progress:N:Label] of the blocks
ProgressMarkers ==
    { [n |-> 42, label |-> <<"D", "o", "n", "e">>, text |-> <<"[", "p", "r", "o", "g", "r", "e", "s", "s", ":", "4", "2", ":", "D", "o", "n", "e", "]">>],
      [n |-> 100, label |-> <<"x", ":", "y">>, text |-> <<"[", "p", "r", "o", "g", "r", "e", "s", "s", ":", "1", "0", "0", ":", "x", ":", "y", "]">>] }

\* the text of doc contains the marker pm and no other progress marker
OnlyMarker(pm) ==
    /\ Cardinality({k \in 1..Len(doc) : doc[k] = pm.text}) = 1
    /\ \A k \in 1..Len(doc) : doc[k] # pm.text => ~Includes(doc[k], <<"[", "p", "r", "o", "g", "r", "e", "s", "s", ":">>)

\* C11: a text that contains one inline marker [progress:N:Label], N in
\* 0..100, yields exactly one progress descriptor; its component is a
\* ProgressBar with the value N and the label Label, and it is the component
\* the component map holds under the marker key of that descriptor.
C11_ProgressRoundTrip ==
    \A pm \in ProgressMarkers :
        (smart.done /\ OnlyMarker(pm)) =>
            /\ Len(OfType(smart.smartComponents, "progress")) = 1
            /\ \A k \in 1..Len(smart.smartComponents) :
                  smart.smartComponents[k].type = "progress" =>
                      /\ smart.smartComponents[k].content = pm.text
                      /\ smart.smartComponents[k].component.el = "ProgressBar"
                      /\ smart.smartComponents[k].component.props = << pm.n, pm.label >>
                      /\ pm.n \in 0..100
                      /\ smart.componentMap[Placeholder(k - 1)] = smart.smartComponents[k].component

C11_Witness ==
    /\ smart.done
    /\ doc = << <<BQ, BQ, BQ, "t", "a", "s", "k", "s", "\n", "[", "x", "]", " ", "a", "\n", "[", " ", "]", " ", "b", "\n", BQ, BQ, BQ>>, <<"[", "p", "r", "o", "g", "r", "e", "s", "s", ":", "4", "2", ":", "D", "o", "n", "e", "]">> >>
    /\ Len(smart.smartComponents) = 2
    /\ smart.smartComponents[2].component.props = << 42, <<"D", "o", "n", "e">> >>
    /\ smart.componentMap[<<"<", "!", "-", "-", "S", "M", "A", "R", "T", "_", "C", "O", "M", "P", "O", "N", "E", "N", "T", "_", "1", "-", "-", ">">>].el = "ProgressBar"
    /\ smart.enhancedMarkdown = <<"<", "!", "-", "-", "S", "M", "A", "R", "T", "_", "C", "O", "M", "P", "O", "N", "E", "N", "T", "_", "0", "-", "-", ">", "<", "!", "-", "-", "S", "M", "A", "R", "T", "_", "C", "O", "M", "P", "O", "N", "E", "N", "T", "_", "1", "-", "-", ">">>

\* the index (from 0) at which the k-th block of doc starts in its text
BlockStart(k) == Len(Flatten(SubSeq(doc, 1, k - 1)))

\* the descriptors that start inside the k-th block of doc
DescriptorsIn(k) ==
    SelectSeq(smart.smartComponents,
              LAMBDA c : c.startIndex >= BlockStart(k) /\ c.startIndex < BlockStart(k) + Len(doc[k]))

\* the fenced chart blocks whose first line is none of bar, line, pie, donut
UnknownCharts == { <<BQ, BQ, BQ, "c", "h", "a", "r", "t", "\n", "f", "o", "o", "\n", "A", ":", "1", "\n", BQ, BQ, BQ>>, <<BQ, BQ, BQ, "c", "h", "a", "r", "t", "\n", "f", "o", "o", "\n", "[", "p", "r", "o", "g", "r", "e", "s", "s", ":", "5", "]", "\n", BQ, BQ, BQ>> }

\* C12: for every fenced chart block whose first line is not one of bar,
\* line, pie, donut the scan emits no descriptor, and the text of the block
\* is in the rewritten text unchanged.
C12_UnknownChartLiteral ==
    smart.done =>
        \A k \in 1..Len(doc) :
            doc[k] \in UnknownCharts =>
                /\ DescriptorsIn(k) = <<>>
                /\ Includes(smart.enhancedMarkdown, doc[k])

\* C13: for every fenced tasks block the scanner matches, a line of the
\* TaskList is completed exactly when it begins with [x] or [X], and the
\* completion percentage is round(completed / total * 100), an integer in
\* 0..100, also for a block with no task line.
C13_TasksPercentage ==
    smart.done =>
        \A k \in 1..Len(smart.smartComponents) :
            smart.smartComponents[k].type = "tasks" =>
                LET tasks == smart.smartComponents[k].component.props[1]
                    done == {j \in 1..Len(tasks) :
                                /\ Len(tasks[j]) >= 3
                                /\ tasks[j][1] = "[" /\ tasks[j][2] \in {"x", "X"} /\ tasks[j][3] = "]"}
                IN  /\ \A j \in 1..Len(tasks) :
                          TaskList(tasks).parsedTasks[j].completed <=> j \in done
                    /\ TaskList(tasks).percentage.t = "num"
                    /\ TaskList(tasks).percentage.n \in 0..100
                    /\ 2 * Len(tasks) * TaskList(tasks).percentage.n <=
                          200 * Cardinality(done) + Len(tasks)
                    /\ 2 * Len(tasks) * TaskList(tasks).percentage.n >
                          200 * Cardinality(done) - Len(tasks)

(***************************************************************************)
(* The pipeline coordinator (App).  pipe holds the state of the App that   *)
(* the preview depends on, the pending debounce timer, the pending effect  *)
(* that recomputes the processed text, and the upload in progress; smart   *)
(* is what useSmartComponents returned at the last render.                 *)
(* tick is the parity of the number of tasks the event loop has run.      *)
(***************************************************************************)
\* stands for the welcome document: headings, text and smart components,
\* no image reference
defaultMarkdown == <<"#", " ", "W", "\n", "[", "p", "r", "o", "g", "r", "e", "s", "s", ":", "7", "5", ":", "P", "]">>

\* the texts the editor is given
EditorTexts ==
    { defaultMarkdown, <<"Y">>, <<"!", "[", "t", "]", "(", "a", ".", "b", ")", "[", "p", "r", "o", "g", "r", "e", "s", "s", ":", "5", "]">>, <<"{", "{", "=", "2", "*", "3", "}", "}", "[", "p", "r", "o", "g", "r", "e", "s", "s", ":", "5", "]">>,
      <<BQ, BQ, BQ, "c", "h", "a", "r", "t", "\n", "b", "a", "r", "\n", "!", "[", "[", "a", ".", "B", "|", "9", "]", "]", "\n", BQ, BQ, BQ>> }

\* part_002:333, MAX_FILE_SIZE = 5 * 1024 * 1024
MAX_FILE_SIZE == 5242880

\* the files offered for upload, with the bytes FileReader reads: three
\* images below the compression threshold of 100 KB, an image above it, an
\* image above MAX_FILE_SIZE and a text file
Files ==
    { [name |-> <<"a", ".", "b">>, type |-> <<"i", "m", "a", "g", "e", "/", "p", "n", "g">>, size |-> 1024, bytes |-> <<"Q">>],
      [name |-> <<"d", ".", "P", "N", "G">>, type |-> <<"i", "m", "a", "g", "e", "/", "p", "n", "g">>, size |-> 2048, bytes |-> <<"R">>],
      [name |-> <<"n">>, type |-> <<"i", "m", "a", "g", "e", "/", "g", "i", "f">>, size |-> 1024, bytes |-> <<"S">>],
      [name |-> <<"g", ".", "j">>, type |-> <<"i", "m", "a", "g", "e", "/", "j", "p", "e", "g">>, size |-> 204800, bytes |-> <<"G">>],
      [name |-> <<"h", ".", "q">>, type |-> <<"i", "m", "a", "g", "e", "/", "p", "n", "g">>, size |-> 6291456, bytes |-> <<"H">>],
      [name |-> <<"t", ".", "x">>, type |-> <<"t", "e", "x", "t", "/", "p", "l", "a", "i", "n">>, size |-> 1024, bytes |-> <<"T">>] }

\* reader.readAsDataURL(file)
convertImageToBase64(file) == <<"d", "a", "t", "a", ":">> \o file.bytes

MaxUploads == 2

MaxLoads == 1

\* new File([blob], file.name): the canvas, at most 800 by 1000 pixels,
\* encoded again; the blob is half the 100 KB threshold
compressImage(file) == [file EXCEPT !.size = 51200, !.bytes = <<"j">> \o @]

NoFile == [name |-> <<>>, type |-> <<>>, size |-> 0, bytes |-> <<>>]

\* a call of handleImageUpload before its loop: the files of the event and
\* the copy of the image index of the closure
NewBatch(source, files, imageMap) ==
    [source |-> source, files |-> files, i |-> 1, phase |-> "loop", processedFile |-> NoFile,
     imageMap |-> imageMap, newImageMap |-> imageMap, outcomes |-> <<>>]

\* the end of an iteration, had the loop ended with it
Continue_Abort(b, outcome) ==
    [b EXCEPT !.outcomes = Append(@, outcome), !.i = Len(b.files) + 1,
              !.processedFile = NoFile, !.phase = "pacing"]

RECURSIVE Loop(_)
\* the end of an iteration, by addedImages.push, by the catch block
\* (toast.error of the message) or by a file that is no image: the loop
\* goes on with the next file
Continue(b, outcome) ==
    Loop([b EXCEPT !.outcomes = Append(@, outcome), !.i = @ + 1, !.processedFile = NoFile])

\* convertImageToBase64(processedFile) is called: rejected when the file is
\* over MAX_FILE_SIZE, else the FileReader is started
StartEncode(b, processedFile) ==
    IF processedFile.size > MAX_FILE_SIZE THEN Continue(b, "tooLarge")
    ELSE [b EXCEPT !.phase = "encode", !.processedFile = processedFile]

\* the for loop from file i up to its next await on the browser; after the
\* last file setImageMap(newImageMap) is called and the timeout is set
Loop(b) ==
    IF b.i > Len(b.files) THEN [b EXCEPT !.phase = "pacing"]
    ELSE IF ~MatchAt(b.files[b.i].type, <<"i", "m", "a", "g", "e", "/">>, 1) THEN Continue(b, "skipped")
    ELSE IF b.files[b.i].size > 102400 THEN [b EXCEPT !.phase = "compress"]
    ELSE StartEncode(b, b.files[b.i])

\* the App state after call n of handleImageUpload has advanced to b
WithBatch(p, n, b) ==
    [(IF b.phase = "pacing" THEN [p EXCEPT !.imageMap = b.newImageMap, !.effect = TRUE] ELSE p)
        EXCEPT !.uploads = [k \in 1..(IF n > Len(p.uploads) THEN n ELSE Len(p.uploads)) |->
                               IF k = n THEN b ELSE p.uploads[k]]]

\* the file selections the user has at hand: one image, from the header
\* button
ButtonOffers == { [source |-> "button", files |-> << f >>] : f \in {x \in Files : x.name = <<"a", ".", "b">>} }

\* what the preview pane renders: EnhancedMarkdown with the rewritten text
\* and the component map when there are components (footer: the components
\* whose key the text includes), ReactMarkdown with the processed text
\* otherwise
Preview(sm, processedMarkdown) ==
    IF sm.hasSmartComponents
    THEN [renderer |-> "EnhancedMarkdown", content |-> sm.enhancedMarkdown,
          componentMap |-> sm.componentMap,
          footer |-> {key \in DOMAIN sm.componentMap : Includes(sm.enhancedMarkdown, key)}]
    ELSE [renderer |-> "ReactMarkdown", content |-> processedMarkdown,
          componentMap |-> EmptyMap, footer |-> {}]

\* the render that follows a state change
Render(p) ==
    [p EXCEPT !.preview = Preview(useSmartComponents(p.processedMarkdown), p.processedMarkdown)]

\* the effect, had it scanned and rewritten the text before resolving its
\* image references
RunEffect_ScanFirst(p) ==
    [p EXCEPT !.effect = FALSE,
              !.resolver = [called |-> TRUE,
                            markdown |-> useSmartComponents(p.debouncedMarkdown).enhancedMarkdown,
                            imageMap |-> p.imageMap],
              !.processedMarkdown =
                  processMarkdownImages(useSmartComponents(p.debouncedMarkdown).enhancedMarkdown,
                                        p.imageMap),
              !.imageStatus = getImageMatchStatus(p.debouncedMarkdown, p.imageMap)]

\* the effect on [debouncedMarkdown, imageMap]: updateProcessedMarkdown
RunEffect(p) ==
    [p EXCEPT !.effect = FALSE,
              !.resolver = [called |-> TRUE, markdown |-> p.debouncedMarkdown,
                            imageMap |-> p.imageMap],
              !.processedMarkdown = processMarkdownImages(p.debouncedMarkdown, p.imageMap),
              !.imageStatus = getImageMatchStatus(p.debouncedMarkdown, p.imageMap)]

\* a pending effect runs before the next state change is rendered
Flushed(p) == IF p.effect THEN RunEffect(p) ELSE p

Mounted ==
    [mounted |-> TRUE,
     markdownContent |-> defaultMarkdown,
     timer |-> [pending |-> TRUE, value |-> defaultMarkdown],
     debouncedMarkdown |-> defaultMarkdown,
     imageMap |-> EmptyMap,
     isProcessingImages |-> FALSE,
     commands |-> [imageMap |-> EmptyMap],
     offers |-> ButtonOffers,
     documents |-> {},
     uploads |-> <<>>,
     loads |-> 0,
     ingested |-> {},
     effect |-> TRUE,
     resolver |-> [called |-> FALSE, markdown |-> <<>>, imageMap |-> EmptyMap],
     processedMarkdown |-> defaultMarkdown,
     imageStatus |-> [matched |-> 0, unmatched |-> 0, total |-> 0],
     preview |-> [renderer |-> "ReactMarkdown", content |-> <<>>,
                 componentMap |-> EmptyMap, footer |-> {}]]

InitPipeline ==
    /\ doc = <<>>
    /\ content = <<>>
    /\ variables = <<>>
    /\ run = NoRun
    /\ pipe = Render(Mounted)
    /\ smart = useSmartComponents(defaultMarkdown)
    /\ tick = FALSE
    /\ palette = NoPalette
    /\ app = NoApp
    /\ exportHistory = NoExportHistory
    /\ localStorage = NoStorage
    /\ templates = NoTemplates
    /\ autoSave = NoAutoSave

\* the App state becomes p and the App renders
Commit(p) ==
    /\ pipe' = Render(p)
    /\ smart' = useSmartComponents(p.processedMarkdown)
    /\ UNCHANGED <<doc, content, variables, run, autoSave, templates, localStorage, exportHistory, app, palette>>

\* setMarkdownContent(text), were a pending debounce timer not superseded
SetMarkdownContent_NotSuperseded ==
    \E text \in EditorTexts :
        /\ text # pipe.markdownContent
        /\ UNCHANGED tick
        /\ Commit([Flushed(pipe) EXCEPT !.markdownContent = text,
                                        !.timer = IF pipe.timer.pending THEN pipe.timer
                                                  ELSE [pending |-> TRUE, value |-> text],
                                        !.commands = [imageMap |-> pipe.imageMap]])

\* setMarkdownContent(text) and the effect that restarts the debounce timer;
\* manualSave changes with the text, so the commands memo is computed again
\* and holds the handlers of this render
SetMarkdownContent ==
    \E text \in EditorTexts :
        /\ text # pipe.markdownContent
        /\ UNCHANGED tick
        /\ Commit([Flushed(pipe) EXCEPT !.markdownContent = text,
                                        !.timer = [pending |-> TRUE, value |-> text],
                                        !.commands = [imageMap |-> pipe.imageMap]])

\* the debounce timer fires: setDebouncedMarkdown(value)
DebounceFire ==
    /\ pipe.timer.pending
    /\ tick' = ~tick
    /\ Commit(IF pipe.timer.value = pipe.debouncedMarkdown
              THEN [pipe EXCEPT !.timer.pending = FALSE]
              ELSE [Flushed(pipe) EXCEPT !.timer.pending = FALSE,
                                         !.debouncedMarkdown = pipe.timer.value,
                                         !.effect = TRUE])

\* the pending effect runs: processMarkdownImages, setProcessedMarkdown and
\* setImageStatus
UpdateProcessedMarkdown ==
    /\ pipe.effect
    /\ tick' = ~tick
    /\ Commit(RunEffect(pipe))

\* handleImageUpload up to its first await, for the files of an input of
\* the header or the mobile menu (disabled while isProcessingImages) or of
\* the command palette (whose handler is the one the commands memo holds)
HandleImageUpload ==
    \E o \in pipe.offers :
        /\ Len(pipe.uploads) < MaxUploads
        /\ UNCHANGED tick
        /\ o.source = "button" => ~pipe.isProcessingImages
        /\ Commit(WithBatch([Flushed(pipe) EXCEPT !.isProcessingImages = TRUE],
                            Len(pipe.uploads) + 1,
                            Loop(NewBatch(o.source, o.files,
                                          IF o.source = "palette" THEN pipe.commands.imageMap
                                          ELSE pipe.imageMap))))

\* compressImage settles: resolved with the compressed file or rejected
CompressSettles ==
    \E n \in 1..Len(pipe.uploads), ok \in BOOLEAN :
        /\ pipe.uploads[n].phase = "compress"
        /\ tick' = ~tick
        /\ Commit(WithBatch(Flushed(pipe), n,
                            IF ok THEN StartEncode(pipe.uploads[n],
                                                   compressImage(pipe.uploads[n].files[pipe.uploads[n].i]))
                            ELSE Continue(pipe.uploads[n], "notCompressed")))

\* the FileReader of convertImageToBase64 settles: on load the path
\* variations of the file are set in newImageMap, on error the promise is
\* rejected
ImageRead ==
    \E n \in 1..Len(pipe.uploads), ok \in BOOLEAN :
        /\ pipe.uploads[n].phase = "encode"
        /\ tick' = ~tick
        /\ Commit(WithBatch(
              [Flushed(pipe) EXCEPT !.ingested = IF ok THEN @ \cup {pipe.uploads[n].files[pipe.uploads[n].i].name} ELSE @],
              n,
              IF ok
              THEN Continue([pipe.uploads[n] EXCEPT !.newImageMap =
                                SetAll(@, generatePathVariations(pipe.uploads[n].files[pipe.uploads[n].i].name),
                                       convertImageToBase64(pipe.uploads[n].processedFile))],
                            "indexed")
              ELSE Continue(pipe.uploads[n], "notRead")))

\* the timeout that ends the upload: setIsProcessingImages(false)
UploadPaced ==
    \E n \in 1..Len(pipe.uploads) :
        /\ pipe.uploads[n].phase = "pacing"
        /\ tick' = ~tick
        /\ Commit([Flushed(pipe) EXCEPT !.isProcessingImages = FALSE, !.uploads[n].phase = "done"])

NextPipeline ==
    \/ SetMarkdownContent
    \/ DebounceFire
    \/ UpdateProcessedMarkdown
    \/ HandleImageUpload
    \/ ImageRead
    \/ UploadPaced

SpecPipeline == InitPipeline /\ [][NextPipeline]_vars

(***************************************************************************)
(* The coordinator with upload batches from the header button and the      *)
(* command palette, of images that are and are not compressed, and with    *)
(* documents loaded from disk; the text is not edited.                     *)
(***************************************************************************)
FileNamed(name) == CHOOSE f \in Files : f.name = name

UploadOffers ==
    { [source |-> "button", files |-> << FileNamed(<<"h", ".", "q">>), FileNamed(<<"a", ".", "b">>) >>],
      [source |-> "palette", files |-> << FileNamed(<<"t", ".", "x">>), FileNamed(<<"n">>) >>] }

\* the saved documents the user has at hand: the content and the entries of
\* the image index it was saved with
SavedDocuments ==
    { [content |-> <<"!", "[", "t", "]", "(", "k", ")">>, imageMap |-> [path \in {<<"k">>} |-> <<"d", "a", "t", "a", ":", "K">>]] }

InitUpload ==
    /\ doc = <<>>
    /\ content = <<>>
    /\ variables = <<>>
    /\ run = NoRun
    /\ pipe = Render(RunEffect([Mounted EXCEPT !.offers = UploadOffers,
                                               !.documents = SavedDocuments,
                                               !.timer.pending = FALSE]))
    /\ smart = useSmartComponents(defaultMarkdown)
    /\ tick = FALSE
    /\ palette = NoPalette
    /\ app = NoApp
    /\ exportHistory = NoExportHistory
    /\ localStorage = NoStorage
    /\ templates = NoTemplates
    /\ autoSave = NoAutoSave

\* loadDocument, when the file is read: the content and the image index of
\* the document are set and the recent documents are updated, so the
\* commands memo is computed again
LoadDocument ==
    \E d \in pipe.documents :
        /\ pipe.loads < MaxLoads
        /\ UNCHANGED tick
        /\ Commit([Flushed(pipe) EXCEPT !.markdownContent = d.content,
                                        !.timer = [pending |-> TRUE, value |-> d.content],
                                        !.imageMap = d.imageMap,
                                        !.effect = TRUE,
                                        !.commands = [imageMap |-> d.imageMap],
                                        !.loads = @ + 1,
                                        !.ingested = {}])

NextUpload ==
    \/ DebounceFire
    \/ UpdateProcessedMarkdown
    \/ HandleImageUpload
    \/ CompressSettles
    \/ ImageRead
    \/ UploadPaced
    \/ LoadDocument

SpecUpload == InitUpload /\ [][NextUpload]_vars

\* a task is queued in the browser: the debounce timer, the pending effect,
\* the FileReader, image or toBlob callback or the timeout of an upload
TaskQueued ==
    \/ pipe.timer.pending
    \/ pipe.effect
    \/ \E n \in 1..Len(pipe.uploads) : pipe.uploads[n].phase \in {"compress", "encode", "pacing"}

\* the event loop runs a queued task
EventLoop == TaskQueued /\ tick' = ~tick

\* a queued task is run in the end: a FileReader fires load or error, an
\* image load or error, toBlob calls back, timers fire and pending effects
\* run
SpecUploadFair == SpecUpload /\ WF_tick(EventLoop)

\* the coordinator with the text edited, under the same fairness
SpecPipelineFair == SpecPipeline /\ WF_tick(EventLoop)

(***************************************************************************)
(* Properties of the pipeline coordinator.                                 *)
(***************************************************************************)
\* the pipeline has run for the current debounced text and image index
Settled == pipe.mounted /\ pipe.resolver.called /\ ~pipe.effect

\* the template expansion of a text with the active variable set
Expanded(text) == processTemplate(text, variables).out.text

MaxRefs == 2

MaxAssets == 2

\* ![alt](path)
StandardRef(alt, path) ==
    [k |-> "standard", alt |-> alt, path |-> path, size |-> <<>>,
     text |-> <<"!", "[">> \o alt \o <<"]", "(">> \o path \o <<")">>]

\* ![[path]] and ![[path|size]]
ObsidianRef(path, size) ==
    [k |-> "obsidian", alt |-> <<>>, path |-> path, size |-> size,
     text |-> <<"!", "[", "[">> \o path \o (IF size = <<>> THEN <<>> ELSE <<"|">> \o size) \o <<"]", "]">>]

PlainText(text) == [k |-> "text", alt |-> <<>>, path |-> <<>>, size |-> <<>>, text |-> text]

Segments ==
    { PlainText(<<"Y">>), PlainText(<<"\n">>),
      StandardRef(<<"t">>, <<"a", ".", "b">>), StandardRef(<<"$", "$">>, <<"a", ".", "b">>), StandardRef(<<"x">>, <<"d", ".", "p", "n", "g">>),
      StandardRef(<<"t">>, <<"z">>), StandardRef(<<"t">>, <<"h", "t", "t", "p", ":", "/", "/", "h">>),
      ObsidianRef(<<"a", ".", "b">>, <<>>), ObsidianRef(<<"a", ".", "b">>, <<"9">>), ObsidianRef(<<".", "/", "n">>, <<>>),
      ObsidianRef(<<"z">>, <<"9">>) }

ImageDocs == UNION {[1..n -> Segments] : n \in 1..MaxRefs}

DocTextOf(d) == Flatten([k \in 1..Len(d) |-> d[k].text])

InitImages ==
    /\ doc \in ImageDocs
    /\ content = DocTextOf(doc)
    /\ variables = <<>>
    /\ run = NoRun
    /\ smart = NoSmart
    /\ pipe = [mounted |-> FALSE, debouncedMarkdown |-> content, imageMap |-> EmptyMap,
               assets |-> <<>>, effect |-> TRUE,
               resolver |-> [called |-> FALSE, markdown |-> <<>>, imageMap |-> EmptyMap],
               processedMarkdown |-> content,
               imageStatus |-> [matched |-> 0, unmatched |-> 0, total |-> 0]]
    /\ tick = FALSE
    /\ palette = NoPalette
    /\ app = NoApp
    /\ exportHistory = NoExportHistory
    /\ localStorage = NoStorage
    /\ templates = NoTemplates
    /\ autoSave = NoAutoSave

\* an image below the compression threshold is ingested: it is encoded and
\* its path variations are indexed
IndexAsset ==
    \E file \in Files :
        /\ MatchAt(file.type, <<"i", "m", "a", "g", "e", "/">>, 1)
        /\ file.size <= 102400
        /\ Len(pipe.assets) < MaxAssets
        /\ \A k \in 1..Len(pipe.assets) : pipe.assets[k] # file
        /\ pipe' = [pipe EXCEPT
              !.assets = Append(@, file),
              !.imageMap = SetAll(@, generatePathVariations(file.name), convertImageToBase64(file)),
              !.effect = TRUE]
        /\ UNCHANGED <<doc, content, variables, run, smart, tick, autoSave, templates, localStorage, exportHistory, app, palette>>

\* the effect on [debouncedMarkdown, imageMap] runs
ResolveImages ==
    /\ pipe.effect
    /\ pipe' = RunEffect(pipe)
    /\ UNCHANGED <<doc, content, variables, run, smart, tick, autoSave, templates, localStorage, exportHistory, app, palette>>

NextImages == IndexAsset \/ ResolveImages

SpecImages == InitImages /\ [][NextImages]_vars

(***************************************************************************)
(* Properties of the resolver and the index.                               *)
(***************************************************************************)
\* the resolver has run on the text with the current index
Resolved == ~pipe.mounted /\ pipe.resolver.called /\ ~pipe.effect

\* a reference with only its path portion replaced by the data
PathReplaced(seg, data) ==
    IF seg.k = "standard" THEN StandardRef(seg.alt, data).text ELSE ObsidianRef(data, seg.size).text

\* C14 as claimed: in both syntaxes a reference whose path is an index key
\* has only its path portion replaced by the embedded data, its alt text and
\* size suffix kept; references whose path is not a key and the text outside
\* references are unchanged.
C14_OnlyPathReplaced ==
    Resolved =>
        pipe.processedMarkdown =
            Flatten([k \in 1..Len(doc) |->
                        IF doc[k].k # "text" /\ doc[k].path \in DOMAIN pipe.imageMap
                        THEN PathReplaced(doc[k], pipe.imageMap[doc[k].path])
                        ELSE doc[k].text])

\* the forms a file name is to be indexed under: the bare name, the
\* dot-relative form, the folder-prefixed forms with and without the leading
\* ./, and the name with its extension in lower and in upper case
VariantsOf(name) ==
    LET dots == {d \in 1..(Len(name) - 1) : name[d] = "."}
        e == CHOOSE d \in dots : \A x \in dots : x <= d
    IN  {rel \o folder \o name :
            rel \in {<<>>, <<".", "/">>},
            folder \in {<<>>, <<"i", "m", "a", "g", "e", "s", "/">>, <<"a", "s", "s", "e", "t", "s", "/">>, <<"i", "m", "g", "/">>, <<"p", "i", "c", "s", "/">>, <<"m", "e", "d", "i", "a", "/">>}}
        \cup (IF dots = {} THEN {}
              ELSE {Take(name, e - 1) \o ToLowerCase(Drop(name, e - 1)),
                    Take(name, e - 1) \o ToUpperCase(Drop(name, e - 1))})

\* C15: generatePathVariations returns, for every file name, the bare name,
\* the dot-relative form, each folder-prefixed form with and without the
\* leading ./, and the name with its extension in lower and in upper case;
\* an ingested asset has all of them indexed to its embedded data; hence the
\* asset d.PNG resolves the reference ![x](d.png).
C15_PathVariants ==
    /\ \A file \in Files :
          {generatePathVariations(file.name)[k] :
              k \in 1..Len(generatePathVariations(file.name))} = VariantsOf(file.name)
    /\ pipe.assets # <<>> =>
          \A path \in VariantsOf(pipe.assets[Len(pipe.assets)].name) :
              /\ path \in DOMAIN pipe.imageMap
              /\ pipe.imageMap[path] = convertImageToBase64(pipe.assets[Len(pipe.assets)])
    /\ (/\ Resolved
        /\ \E k \in 1..Len(pipe.assets) : pipe.assets[k].name = <<"d", ".", "P", "N", "G">>
        /\ \E k \in 1..Len(doc) : doc[k] = StandardRef(<<"x">>, <<"d", ".", "p", "n", "g">>))
       => Includes(pipe.processedMarkdown, <<"!", "[", "x", "]", "(", "d", "a", "t", "a", ":", "R", ")">>)

C15_Witness ==
    /\ Resolved
    /\ doc = << StandardRef(<<"x">>, <<"d", ".", "p", "n", "g">>) >>
    /\ content = <<"!", "[", "x", "]", "(", "d", ".", "p", "n", "g", ")">>
    /\ Len(pipe.assets) = 1
    /\ pipe.assets[1].name = <<"d", ".", "P", "N", "G">>
    /\ pipe.imageMap[<<".", "/", "m", "e", "d", "i", "a", "/", "d", ".", "P", "N", "G">>] = <<"d", "a", "t", "a", ":", "R">>
    /\ pipe.processedMarkdown = <<"!", "[", "x", "]", "(", "d", "a", "t", "a", ":", "R", ")">>
    /\ pipe.imageStatus = [matched |-> 1, unmatched |-> 0, total |-> 1]

(***************************************************************************)
(* Properties of upload batches.                                           *)
(***************************************************************************)
\* the keys call b of handleImageUpload has added to its copy of the index
AddedKeys(b) == DOMAIN b.newImageMap \ DOMAIN b.imageMap

\* C16 as claimed: every uploaded asset over the 5 MB ceiling is rejected
\* with the error that names the ceiling and none of its path variants is
\* added to the index; only assets at or under the ceiling are recompressed
\* and embedded.
C16_OversizeRejected ==
    \A n \in 1..Len(pipe.uploads) :
        /\ \A j \in 1..Len(pipe.uploads[n].outcomes) :
              pipe.uploads[n].files[j].size > MAX_FILE_SIZE =>
                  /\ pipe.uploads[n].outcomes[j] = "tooLarge"
                  /\ \A path \in VariantsOf(pipe.uploads[n].files[j].name) :
                        path \in AddedKeys(pipe.uploads[n]) =>
                            \E i \in 1..Len(pipe.uploads[n].outcomes) :
                                /\ i # j
                                /\ pipe.uploads[n].outcomes[i] = "indexed"
                                /\ path \in VariantsOf(pipe.uploads[n].files[i].name)
        /\ pipe.uploads[n].phase \in {"compress", "encode"} =>
              pipe.uploads[n].files[pipe.uploads[n].i].size <= MAX_FILE_SIZE

\* the files of call b that were ingested
Indexed(b) == {j \in 1..Len(b.outcomes) : b.outcomes[j] = "indexed"}

\* call b has ingested the files before file i, each with its outcome, and
\* none after it; its copy of the index has the keys it started with and the
\* path variants of the files ingested, and no key of another file
OneAtATime(b) ==
    /\ Len(b.outcomes) = b.i - 1
    /\ b.phase \in {"compress", "encode"} => b.i <= Len(b.files)
    /\ b.phase \in {"pacing", "done"} => Len(b.outcomes) = Len(b.files)
    /\ \A j \in 1..Len(b.outcomes) :
          /\ b.outcomes[j] \in {"indexed", "skipped", "notCompressed", "tooLarge", "notRead"}
          /\ b.outcomes[j] = "skipped" <=> ~MatchAt(b.files[j].type, <<"i", "m", "a", "g", "e", "/">>, 1)
    /\ DOMAIN b.newImageMap =
          DOMAIN b.imageMap \cup UNION {VariantsOf(b.files[j].name) : j \in Indexed(b)}
    /\ \A path \in DOMAIN b.newImageMap : b.newImageMap[path] # <<>>

\* C17: the assets of a batch are ingested one at a time in input order,
\* each finishing its compression and encoding before the next starts; an
\* asset that is rejected or fails to encode adds none of its keys, every
\* other asset of the batch is still ingested and indexed when the batch
\* sets the index, and the processing flag set at the start of the batch is
\* eventually cleared.
C17_BatchSequential ==
    /\ [](\A n \in 1..Len(pipe.uploads) : OneAtATime(pipe.uploads[n]))
    /\ [][\A n \in 1..Len(pipe.uploads) :
            /\ pipe'.uploads[n].files = pipe.uploads[n].files
            /\ pipe'.uploads[n].i \in {pipe.uploads[n].i, pipe.uploads[n].i + 1, Len(pipe.uploads[n].files) + 1}
            /\ SubSeq(pipe'.uploads[n].outcomes, 1, Len(pipe.uploads[n].outcomes)) = pipe.uploads[n].outcomes
            /\ \A j \in (pipe.uploads[n].i + 1)..(pipe'.uploads[n].i - 1) :
                  pipe'.uploads[n].outcomes[j] = "skipped"
            /\ (pipe.uploads[n].phase \in {"compress", "encode"} /\ pipe'.uploads[n].phase = "pacing")
                  => pipe'.imageMap = pipe'.uploads[n].newImageMap]_vars
    /\ \A n \in 1..MaxUploads :
          (Len(pipe.uploads) >= n) ~> (Len(pipe.uploads) >= n /\ pipe.uploads[n].phase = "done")
    /\ pipe.isProcessingImages ~> ~pipe.isProcessingImages

C17_Witness ==
    /\ Len(pipe.uploads) = 1
    /\ pipe.uploads[1].phase = "done"
    /\ pipe.uploads[1].files = << FileNamed(<<"h", ".", "q">>), FileNamed(<<"a", ".", "b">>) >>
    /\ pipe.uploads[1].outcomes = << "notCompressed", "indexed" >>
    /\ ~pipe.isProcessingImages
    /\ HasData(pipe.imageMap, <<".", "/", "a", ".", "b">>)
    /\ <<"h", ".", "q">> \notin DOMAIN pipe.imageMap

\* call b of handleImageUpload has not called setImageMap yet
InFlight(b) == b.phase \in {"compress", "encode"}

\* C18 as claimed: the index loses no update: once no batch is in flight the
\* index has every key of every asset ingested since the last document load,
\* whatever the interleaving of batches (header button, mobile menu, command
\* palette) and document loads was; and a batch that finishes overwrites no
\* change made to the index while it was in flight.
C18_NoLostUpdate ==
    /\ []((\A n \in 1..Len(pipe.uploads) : ~InFlight(pipe.uploads[n])) =>
            \A name \in pipe.ingested : VariantsOf(name) \subseteq DOMAIN pipe.imageMap)
    /\ [][\A n \in 1..Len(pipe.uploads) :
            (InFlight(pipe.uploads[n]) /\ ~InFlight(pipe'.uploads[n])) =>
                \A path \in DOMAIN pipe.imageMap :
                    \/ path \in DOMAIN pipe.uploads[n].imageMap
                    \/ path \in DOMAIN pipe'.imageMap]_vars

(***************************************************************************)
(* Properties of the debounced recomputation.                              *)
(***************************************************************************)
\* the processed text and the image status are those of the editor content
\* and the image index
UpToDate ==
    /\ pipe.processedMarkdown = processMarkdownImages(pipe.markdownContent, pipe.imageMap)
    /\ pipe.imageStatus = getImageMatchStatus(pipe.markdownContent, pipe.imageMap)

\* C19: each editor change schedules the recomputation after the quiet
\* period and supersedes the pending one (the pending timer holds the
\* editor content), so only a text the timer fired with is ever processed;
\* once input stops, the processed text and the image status are eventually,
\* and from then on, those of the latest editor content and the current
\* image index.
C19_DebouncedRecomputation ==
    /\ [](pipe.timer.pending => pipe.timer.value = pipe.markdownContent)
    /\ [](~pipe.timer.pending => pipe.debouncedMarkdown = pipe.markdownContent)
    /\ [][/\ pipe'.markdownContent # pipe.markdownContent =>
                /\ pipe'.timer = [pending |-> TRUE, value |-> pipe'.markdownContent]
                /\ pipe'.debouncedMarkdown = pipe.debouncedMarkdown
          /\ pipe'.debouncedMarkdown # pipe.debouncedMarkdown =>
                /\ pipe.timer.pending /\ ~pipe'.timer.pending
                /\ pipe'.debouncedMarkdown = pipe.markdownContent
          /\ pipe'.resolver.markdown \in {pipe.resolver.markdown, pipe.debouncedMarkdown}]_vars
    /\ (<>[][pipe'.markdownContent = pipe.markdownContent]_vars) => <>[]UpToDate

C19_Witness ==
    /\ pipe.markdownContent = <<"!", "[", "t", "]", "(", "a", ".", "b", ")", "[", "p", "r", "o", "g", "r", "e", "s", "s", ":", "5", "]">>
    /\ ~pipe.timer.pending
    /\ ~pipe.effect
    /\ \A n \in 1..Len(pipe.uploads) : pipe.uploads[n].phase = "done"
    /\ HasData(pipe.imageMap, <<"a", ".", "b">>)
    /\ pipe.processedMarkdown = <<"!", "[", "t", "]", "(", "d", "a", "t", "a", ":", "Q", ")", "[", "p", "r", "o", "g", "r", "e", "s", "s", ":", "5", "]">>
    /\ pipe.imageStatus = [matched |-> 1, unmatched |-> 0, total |-> 1]
    /\ UpToDate

(***************************************************************************)
(* Auto-save (useAutoSave and the auto-save store).  content is the        *)
(* editor content the hook is rendered with; autoSave holds the hook's     *)
(* lastContentRef, the interval timer with the content and the setting its *)
(* callback closed over, and the store's setting, drafts, current draft    *)
(* id, status and lastSaved, with the drafts in localStorage (a draft is   *)
(* its id, content and timestamp; its title is left out).  now is the      *)
(* clock in days, nextId the count of the ids generateDraftId has given,   *)
(* statusTimer the pending timeout that resets the status, wrote the       *)
(* outcome of the last localStorage.setItem of the drafts (it throws when  *)
(* the quota is used up), toast the last toast shown.                      *)
(* elapsed: the interval timer has fired since the content or the setting  *)
(* last changed; changed: the content has been changed since the mount.    *)
(***************************************************************************)
\* autoSaveStore.ts:33
MAX_DRAFTS == 20

\* autoSaveStore.ts:34
DRAFT_RETENTION_DAYS == 7

\* the day the page is loaded: late enough for a stored draft to be older
\* than the retention
Today == DRAFT_RETENTION_DAYS + 3

MaxDays == 1

MaxDeletes == 1

AutoSaveTexts == { <<>>, <<"Y">>, <<"Z">>, defaultMarkdown }

\* the ids of a full list of stored drafts
StoredIds ==
    << "s1", "s2", "s3", "s4", "s5", "s6", "s7", "s8", "s9", "s10",
       "s11", "s12", "s13", "s14", "s15", "s16", "s17", "s18", "s19", "s20" >>

\* the drafts found in localStorage at the mount: none, one, one and an old
\* one, or a full list
StoredDrafts ==
    { <<>>,
      << [id |-> "d0", content |-> <<"Z">>, timestamp |-> Today - 1] >>,
      << [id |-> "d0", content |-> <<"Z">>, timestamp |-> Today - 1],
         [id |-> "d9", content |-> <<"Y">>, timestamp |-> Today - 8] >>,
      [i \in 1..MAX_DRAFTS |-> [id |-> StoredIds[i], content |-> <<"Z">>, timestamp |-> Today - 1]] }

\* the ids generateDraftId gives, in their order
GeneratedIds == << "d1", "d2", "d3", "d4" >>

NoTimer == [set |-> FALSE, content |-> <<>>, isAutoSaveEnabled |-> FALSE]

\* isOldDraft(timestamp) at the time now
isOldDraft(timestamp, now) == now - timestamp > DRAFT_RETENTION_DAYS

\* saveDraftsToStorage(drafts): the exception of setItem is caught and logged
saveDraftsToStorage(a, drafts, written) ==
    [a EXCEPT !.localStorage = IF written THEN drafts ELSE @,
              !.wrote = IF written THEN "written" ELSE "failed"]

\* the list saveDraft builds: the draft with the id put first
updatedDrafts(a, id, text) ==
    slice(<< [id |-> id, content |-> text, timestamp |-> a.now] >>
            \o SelectSeq(a.drafts, LAMBDA draft : draft.id # id),
          MAX_DRAFTS)

\* the id saveDraft gives the draft
draftId(a) == IF a.currentDraftId = "none" THEN GeneratedIds[a.nextId] ELSE a.currentDraftId

\* saveDraft(content) with a new id for every draft
saveDraft_NewId(a, text, written) ==
    IF ~a.isAutoSaveEnabled THEN a
    ELSE [saveDraftsToStorage(a, slice(<< [id |-> GeneratedIds[a.nextId], content |-> text,
                                           timestamp |-> a.now] >> \o a.drafts, MAX_DRAFTS),
                              written)
            EXCEPT !.drafts = slice(<< [id |-> GeneratedIds[a.nextId], content |-> text,
                                        timestamp |-> a.now] >> \o a.drafts, MAX_DRAFTS),
                   !.lastSaved = a.now,
                   !.currentDraftId = GeneratedIds[a.nextId],
                   !.autoSaveStatus = "saved",
                   !.statusTimer = "saved",
                   !.nextId = @ + 1]

\* the store's saveDraft(content).  Nothing in its try block throws
\* (saveDraftsToStorage catches the exception of setItem itself), so the
\* catch block with the status error is never entered.
saveDraft(a, text, written) ==
    IF ~a.isAutoSaveEnabled THEN a
    ELSE [saveDraftsToStorage(a, updatedDrafts(a, draftId(a), text), written)
            EXCEPT !.drafts = updatedDrafts(a, draftId(a), text),
                   !.lastSaved = a.now,
                   !.currentDraftId = draftId(a),
                   !.autoSaveStatus = "saved",
                   !.statusTimer = "saved",
                   !.nextId = IF a.currentDraftId = "none" THEN @ + 1 ELSE @]

\* deleteDraft(draftId)
deleteDraft(a, id, written) ==
    [saveDraftsToStorage(a, SelectSeq(a.drafts, LAMBDA draft : draft.id # id), written)
        EXCEPT !.drafts = SelectSeq(a.drafts, LAMBDA draft : draft.id # id),
               !.currentDraftId = IF a.currentDraftId = id THEN "none" ELSE @,
               !.toast = "Draft deleted"]

\* cleanupOldDrafts()
cleanupOldDrafts(a, written) ==
    IF \A i \in 1..Len(a.drafts) : ~isOldDraft(a.drafts[i].timestamp, a.now) THEN a
    ELSE [saveDraftsToStorage(a, SelectSeq(a.drafts, LAMBDA draft : ~isOldDraft(draft.timestamp, a.now)),
                              written)
            EXCEPT !.drafts = SelectSeq(a.drafts, LAMBDA draft : ~isOldDraft(draft.timestamp, a.now))]

\* initializeFromStorage(): the drafts of localStorage that are not old;
\* they are written back when some were old
initializeFromStorage(a, written) ==
    IF \A i \in 1..Len(a.localStorage) : ~isOldDraft(a.localStorage[i].timestamp, a.now)
    THEN [a EXCEPT !.drafts = a.localStorage]
    ELSE [saveDraftsToStorage(a, SelectSeq(a.localStorage,
                                           LAMBDA draft : ~isOldDraft(draft.timestamp, a.now)),
                              written)
            EXCEPT !.drafts = SelectSeq(a.localStorage,
                                        LAMBDA draft : ~isOldDraft(draft.timestamp, a.now))]

\* recoverLatestDraft(): the first draft becomes the current draft
recoverLatestDraft(a) ==
    IF a.drafts = <<>> THEN a ELSE [a EXCEPT !.currentDraftId = a.drafts[1].id]

\* the effects of a render with the content text: the interval is set again
\* with the new saveIfChanged, and the effect on [content] sets
\* lastContentRef
useAutoSave(a, text) ==
    [a EXCEPT !.timer = IF a.isAutoSaveEnabled
                        THEN [set |-> TRUE, content |-> text, isAutoSaveEnabled |-> TRUE]
                        ELSE NoTimer,
              !.lastContentRef = IF text # <<>> /\ text # a.lastContentRef THEN text ELSE @,
              !.elapsed = FALSE]

\* saveIfChanged, as the interval calls it
saveIfChanged(a, written) ==
    IF ~a.timer.isAutoSaveEnabled \/ a.timer.content = <<>> THEN a
    ELSE IF a.timer.content # a.lastContentRef
         THEN saveDraft([a EXCEPT !.lastContentRef = a.timer.content], a.timer.content, written)
         ELSE a

\* manualSave of a render with the content text
manualSave(a, text, written) ==
    IF text = <<>> THEN a
    ELSE [saveDraft(a, text, written) EXCEPT !.toast = "Draft saved manually"]

\* the store when the module is loaded, with the drafts in localStorage
StoreCreated(stored, enabled) ==
    [mounted |-> TRUE, isAutoSaveEnabled |-> enabled,
     lastContentRef |-> <<>>, timer |-> NoTimer,
     drafts |-> <<>>, localStorage |-> stored, currentDraftId |-> "none",
     autoSaveStatus |-> "idle", lastSaved |-> 0, now |-> Today, nextId |-> 1,
     statusTimer |-> "none", wrote |-> "none", toast |-> "none", deleted |-> 0,
     elapsed |-> FALSE, changed |-> FALSE]

\* the mount effect (the content is the default content, so the latest draft
\* is looked for) and the other effects of the first render
InitAutoSave ==
    /\ doc = <<>>
    /\ content = defaultMarkdown
    /\ variables = <<>>
    /\ run = NoRun
    /\ smart = NoSmart
    /\ pipe = NoPipe
    /\ tick = FALSE
    /\ palette = NoPalette
    /\ app = NoApp
    /\ exportHistory = NoExportHistory
    /\ localStorage = NoStorage
    /\ templates = NoTemplates
    /\ \E stored \in StoredDrafts, enabled \in BOOLEAN, written \in BOOLEAN :
          autoSave = useAutoSave(
                       recoverLatestDraft(
                         cleanupOldDrafts(
                           initializeFromStorage(StoreCreated(stored, enabled), written),
                           written)),
                       defaultMarkdown)

\* setMarkdownContent(text): the hook is rendered with the new content
EditContent ==
    \E text \in AutoSaveTexts :
        /\ text # content
        /\ content' = text
        /\ autoSave' = [useAutoSave(autoSave, text) EXCEPT !.changed = TRUE]
        /\ UNCHANGED <<doc, variables, run, smart, pipe, tick, templates, localStorage, exportHistory, app, palette>>

\* the interval timer fires
IntervalFires ==
    /\ autoSave.timer.set
    /\ \E written \in BOOLEAN :
          autoSave' = [saveIfChanged(autoSave, written) EXCEPT !.elapsed = TRUE]
    /\ UNCHANGED <<doc, content, variables, run, smart, pipe, tick, templates, localStorage, exportHistory, app, palette>>

\* manualSave (Save Draft Now, Ctrl+Shift+S)
ManualSave(written) ==
    /\ autoSave' = manualSave(autoSave, content, written)
    /\ UNCHANGED <<doc, content, variables, run, smart, pipe, tick, templates, localStorage, exportHistory, app, palette>>

\* setAutoSaveEnabled(enabled): the hook is rendered with the new setting
SetAutoSaveEnabled ==
    /\ autoSave' = [useAutoSave([autoSave EXCEPT !.isAutoSaveEnabled = ~@,
                                                 !.toast = IF autoSave.isAutoSaveEnabled
                                                           THEN "Auto-save disabled"
                                                           ELSE "Auto-save enabled"],
                                content)
                       EXCEPT !.lastContentRef = autoSave.lastContentRef]
    /\ UNCHANGED <<doc, content, variables, run, smart, pipe, tick, templates, localStorage, exportHistory, app, palette>>

\* deleteDraft(draftId) of a draft of the list
DeleteDraft(id, written) ==
    /\ autoSave.deleted < MaxDeletes
    /\ autoSave' = [deleteDraft(autoSave, id, written) EXCEPT !.deleted = @ + 1]
    /\ UNCHANGED <<doc, content, variables, run, smart, pipe, tick, templates, localStorage, exportHistory, app, palette>>

\* the timeout saveDraft set fires: the status saved becomes idle
StatusTimeout ==
    /\ autoSave.statusTimer # "none"
    /\ autoSave' = [autoSave EXCEPT !.statusTimer = "none",
                                    !.autoSaveStatus = IF @ = autoSave.statusTimer THEN "idle" ELSE @]
    /\ UNCHANGED <<doc, content, variables, run, smart, pipe, tick, templates, localStorage, exportHistory, app, palette>>

\* a day passes
DayPasses ==
    /\ autoSave.now < Today + MaxDays
    /\ autoSave' = [autoSave EXCEPT !.now = @ + 1]
    /\ UNCHANGED <<doc, content, variables, run, smart, pipe, tick, templates, localStorage, exportHistory, app, palette>>

NextAutoSave ==
    \/ EditContent
    \/ IntervalFires
    \/ \E written \in BOOLEAN : ManualSave(written)
    \/ SetAutoSaveEnabled
    \/ \E i \in 1..Len(autoSave.drafts), written \in BOOLEAN :
          DeleteDraft(autoSave.drafts[i].id, written)
    \/ StatusTimeout
    \/ DayPasses

SpecAutoSave == InitAutoSave /\ [][NextAutoSave]_vars

(***************************************************************************)
(* Properties of auto-save.                                                *)
(***************************************************************************)
\* C20 as claimed: while auto-save is enabled, once the content has changed
\* to a non-empty value and has stayed unchanged for one auto-save interval,
\* the interval timer has saved a draft with that content to the store and
\* to localStorage (a content equal to the last saved draft is not saved
\* again: that draft is the one found).
C20_IntervalSavesDraft ==
    (/\ autoSave.isAutoSaveEnabled
     /\ autoSave.changed
     /\ autoSave.elapsed
     /\ content # <<>>)
    => /\ autoSave.drafts # <<>>
       /\ autoSave.drafts[1].content = content
       /\ autoSave.localStorage # <<>>
       /\ autoSave.localStorage[1].content = content

\* a step of saveDraft that stores a draft: the manual save or the interval
\* timer, with auto-save enabled
SaveDraftStep(written) ==
    /\ autoSave.isAutoSaveEnabled
    /\ \/ ManualSave(written) /\ content # <<>>
       \/ IntervalFires /\ autoSave'.wrote = (IF written THEN "written" ELSE "failed")
                        /\ autoSave'.lastContentRef # autoSave.lastContentRef

\* C26 as claimed: saveDraft ends in the status saved with lastSaved updated
\* only when the draft list was written to storage, and in the status error
\* with lastSaved kept when the write failed; the status is never left at
\* saving, and the timeout takes the status saved to idle unless the status
\* was changed in between.
C26_SavedOnlyWhenWritten ==
    /\ [][/\ SaveDraftStep(TRUE) => /\ autoSave'.autoSaveStatus = "saved"
                                    /\ autoSave'.lastSaved = autoSave.now
                                    /\ autoSave'.localStorage = autoSave'.drafts
          /\ SaveDraftStep(FALSE) => /\ autoSave'.autoSaveStatus = "error"
                                     /\ autoSave'.lastSaved = autoSave.lastSaved]_vars
    /\ [](autoSave.autoSaveStatus # "saving")
    /\ [][StatusTimeout /\ autoSave.autoSaveStatus = "saved"
            => autoSave'.autoSaveStatus = "idle"]_vars

\* C27 as claimed: a manual save of a non-empty content stores the content as
\* a draft and reports 'Draft saved manually'; the report is not given when
\* no draft was stored.
C27_ManualSaveStoresDraft ==
    [][\A written \in BOOLEAN :
          ManualSave(written) =>
             /\ content # <<>> => autoSave'.toast = "Draft saved manually"
             /\ autoSave'.toast = "Draft saved manually"
                  => /\ autoSave'.drafts # <<>>
                     /\ autoSave'.drafts[1].content = content
                     /\ autoSave'.drafts[1].timestamp = autoSave.now]_vars

\* the drafts other than the draft with the id, in their order
Others(drafts, id) == SelectSeq(drafts, LAMBDA draft : draft.id # id)

\* C28: once currentDraftId is set (by the first saveDraft or by
\* recoverLatestDraft at the mount), every saveDraft that stores puts the
\* content under that id in place of the draft of that id and leaves the
\* other drafts and their number as they are; the number of drafts grows only
\* in a save without a current draft id, and a current draft id is lost only
\* by deleting its draft.
C28_SavesReplaceCurrentDraft ==
    /\ [][\A written \in BOOLEAN :
            (ManualSave(written) \/ IntervalFires)
              /\ autoSave.currentDraftId # "none" /\ autoSave'.drafts # autoSave.drafts
            => /\ autoSave'.currentDraftId = autoSave.currentDraftId
               /\ autoSave'.drafts[1].id = autoSave.currentDraftId
               /\ Len(autoSave'.drafts) = Len(autoSave.drafts)
               /\ Others(autoSave'.drafts, autoSave.currentDraftId)
                    = Others(autoSave.drafts, autoSave.currentDraftId)]_vars
    /\ [][Len(autoSave'.drafts) > Len(autoSave.drafts)
            => autoSave.currentDraftId = "none"]_vars
    /\ [][autoSave.currentDraftId # "none" /\ autoSave'.currentDraftId # autoSave.currentDraftId
            => /\ autoSave'.currentDraftId = "none"
               /\ autoSave'.deleted = autoSave.deleted + 1
               /\ Others(autoSave'.drafts, autoSave.currentDraftId) = autoSave'.drafts]_vars

\* the stored draft that was offered at the mount has been overwritten by a
\* manual save of the welcome document, and no draft was added
C28_Witness ==
    /\ autoSave.currentDraftId = "d0"
    /\ autoSave.toast = "Draft saved manually"
    /\ Len(autoSave.drafts) = 1
    /\ autoSave.drafts[1] = [id |-> "d0", content |-> defaultMarkdown, timestamp |-> Today]
    /\ autoSave.localStorage = autoSave.drafts

\* the drafts have pairwise distinct ids
IdsDistinct(drafts) ==
    \A i, j \in 1..Len(drafts) : drafts[i].id = drafts[j].id => i = j

\* the drafts are ordered by timestamp, the newest first
NewestDraftFirst(drafts) ==
    \A i, j \in 1..Len(drafts) : i < j => drafts[i].timestamp >= drafts[j].timestamp

\* C29 as claimed: the draft list holds at most MAX_DRAFTS drafts with
\* pairwise distinct ids, ordered by timestamp newest first, holds no draft
\* older than the retention on the day of the cleanup, and equals the list
\* persisted in localStorage.
C29_DraftListInvariant ==
    /\ Len(autoSave.drafts) <= MAX_DRAFTS
    /\ IdsDistinct(autoSave.drafts)
    /\ NewestDraftFirst(autoSave.drafts)
    /\ autoSave.now = Today
         => \A i \in 1..Len(autoSave.drafts) :
               ~isOldDraft(autoSave.drafts[i].timestamp, autoSave.now)
    /\ autoSave.localStorage = autoSave.drafts

(***************************************************************************)
(* The variable set and the template catalogue (useVariables and the       *)
(* variables panel).  variables is the active variable set, templates the  *)
(* template list and localStorage the browser's storage.  A template is    *)
(* its id, content and variables (name, description and category do not    *)
(* take part); the built-in templates are cut to their heading and their   *)
(* first variables.                                                        *)
(***************************************************************************)
MaxVariables == 3

MaxTemplates == 4

DEFAULT_TEMPLATES ==
    << [id |-> <<"p", "r", "o", "p", "o", "s", "a", "l">>, content |-> <<"#", " ", "{", "{", "c", "o", "m", "p", "a", "n", "y", "N", "a", "m", "e", "}", "}">>,
        variables |-> << Variable(<<"c", "o", "m", "p", "a", "n", "y", "N", "a", "m", "e">>, <<"Y", "o", "u", "r", " ", "C", "o", "m", "p", "a", "n", "y">>, "text"),
                         Variable(<<"d", "u", "r", "a", "t", "i", "o", "n">>, <<"3">>, "number") >>],
       [id |-> <<"m", "e", "e", "t", "i", "n", "g", "-", "n", "o", "t", "e", "s">>, content |-> <<"#", " ", "{", "{", "m", "e", "e", "t", "i", "n", "g", "T", "i", "t", "l", "e", "}", "}">>,
        variables |-> << Variable(<<"m", "e", "e", "t", "i", "n", "g", "T", "i", "t", "l", "e">>, <<"W", "e", "e", "k", "l", "y", " ", "T", "e", "a", "m", " ", "S", "y", "n", "c">>, "text") >>],
       [id |-> <<"r", "e", "p", "o", "r", "t">>, content |-> <<"#", " ", "{", "{", "m", "o", "n", "t", "h", "}", "}">>,
        variables |-> << Variable(<<"m", "o", "n", "t", "h">>, <<"J", "a", "n", "u", "a", "r", "y">>, "text") >>] >>

\* String.prototype.startsWith
startsWith(s, p) == MatchAt(s, p, 1)

IsUserTemplate(t) == startsWith(t.id, <<"u", "s", "e", "r", "-">>)

\* localStorage.getItem(key) is not null
hasItem(store, key) == key \in DOMAIN store

\* localStorage.setItem
setItem(store, key, value) ==
    [k \in DOMAIN store \cup {key} |-> IF k = key THEN value ELSE store[k]]

\* the ids Date.now() gives: the clock may stand still between two saves
UserIds == { <<"u", "s", "e", "r", "-", "1">>, <<"u", "s", "e", "r", "-", "2">> }

\* the names and values typed into the panel
PanelNames == { <<>>, <<"x">>, <<"d", "u", "r", "a", "t", "i", "o", "n">> }

PanelValues == { <<>>, <<"A">> }

\* the values typed into the input of a listed variable
InputValues == { <<"A">> }

\* the user templates found in localStorage at the start
SavedTemplates ==
    { <<>>,
      << [id |-> <<"u", "s", "e", "r", "-", "1">>, content |-> <<"{", "{", "x", "}", "}">>,
          variables |-> << Variable(<<"x">>, <<"A">>, "text") >>] >> }

InitVariables ==
    /\ doc = <<>>
    /\ content = <<>>
    /\ variables = <<>>
    /\ run = NoRun
    /\ smart = NoSmart
    /\ pipe = NoPipe
    /\ tick = FALSE
    /\ palette = NoPalette
    /\ app = NoApp
    /\ exportHistory = NoExportHistory
    /\ autoSave = NoAutoSave
    /\ \E saved \in SavedTemplates, stored \in BOOLEAN :
          /\ stored \/ saved = <<>>
          /\ localStorage = IF stored THEN setItem(NoStorage, "enhancemd-templates", saved)
                            ELSE NoStorage
          /\ templates = DEFAULT_TEMPLATES \o saved

\* addVariable(variable): appended to the set
addVariable(vs, variable) == Append(vs, variable)

\* the panel's handleAddVariable without the test for an existing name
handleAddVariable_NoDuplicateTest(vs, name, value, type) ==
    IF name = <<>> \/ value = <<>> THEN vs
    ELSE addVariable(vs, Variable(name, value, type))

\* the panel's handleAddVariable: name and value are required and a name of
\* the set is refused
handleAddVariable(vs, name, value, type) ==
    IF name = <<>> \/ value = <<>> THEN vs
    ELSE IF \E i \in 1..Len(vs) : vs[i].name = name THEN vs
    ELSE addVariable(vs, Variable(name, value, type))

\* updateVariable(name, value)
updateVariable(vs, name, value) ==
    [i \in 1..Len(vs) |-> IF vs[i].name = name THEN [vs[i] EXCEPT !.value = value]
                          ELSE vs[i]]

\* removeVariable(name)
removeVariable(vs, name) == SelectSeq(vs, LAMBDA v : v.name # name)

\* saveTemplate(template): the list, with the new template last, and the
\* user templates written to localStorage
saveTemplate(ts, template, id) == Append(ts, [template EXCEPT !.id = id])

\* deleteTemplate(id) without the test of the prefix
deleteTemplate_AnyId(ts, id) == SelectSeq(ts, LAMBDA t : t.id # id)

\* deleteTemplate(id): refused for an id without the user- prefix
deleteTemplate(ts, id) ==
    IF ~startsWith(id, <<"u", "s", "e", "r", "-">>) THEN ts
    ELSE SelectSeq(ts, LAMBDA t : t.id # id)

\* the user templates, as saveTemplate and deleteTemplate write them
userTemplates(ts) == SelectSeq(ts, IsUserTemplate)

HandleAddVariable(name, value) ==
    /\ Len(variables) < MaxVariables
    /\ variables' = handleAddVariable(variables, name, value, "text")
    /\ UNCHANGED <<doc, content, run, smart, pipe, tick, autoSave, templates, localStorage, exportHistory, app, palette>>

\* the panel's inputs call updateVariable with the name of a listed variable
UpdateVariable(name, value) ==
    /\ \E i \in 1..Len(variables) : variables[i].name = name
    /\ variables' = updateVariable(variables, name, value)
    /\ UNCHANGED <<doc, content, run, smart, pipe, tick, autoSave, templates, localStorage, exportHistory, app, palette>>

RemoveVariable(name) ==
    /\ \E i \in 1..Len(variables) : variables[i].name = name
    /\ variables' = removeVariable(variables, name)
    /\ UNCHANGED <<doc, content, run, smart, pipe, tick, autoSave, templates, localStorage, exportHistory, app, palette>>

\* saveTemplate of the content and the active variable set
SaveTemplate(id) ==
    /\ Len(templates) < MaxTemplates
    /\ templates' = saveTemplate(templates, [id |-> <<>>, content |-> content,
                                             variables |-> variables], id)
    /\ localStorage' = setItem(localStorage, "enhancemd-templates", userTemplates(templates'))
    /\ UNCHANGED <<doc, content, variables, run, smart, pipe, tick, autoSave, exportHistory, app, palette>>

DeleteTemplate(id) ==
    /\ templates' = deleteTemplate(templates, id)
    /\ localStorage' = IF templates' = templates /\ ~startsWith(id, <<"u", "s", "e", "r", "-">>)
                       THEN localStorage
                       ELSE setItem(localStorage, "enhancemd-templates", userTemplates(templates'))
    /\ UNCHANGED <<doc, content, variables, run, smart, pipe, tick, autoSave, exportHistory, app, palette>>

\* loadTemplate(templateId): the first template of the id; its variables
\* become the active set and its processed content the editor's content
LoadTemplate(id) ==
    /\ \E i \in 1..Len(templates) : templates[i].id = id
    /\ LET template == templates[MinOf({i \in 1..Len(templates) : templates[i].id = id})]
       IN  /\ variables' = template.variables
           /\ run' = processTemplate(template.content, template.variables)
           /\ content' = IF run'.out.ok THEN run'.out.text ELSE content
    /\ UNCHANGED <<doc, smart, pipe, tick, autoSave, templates, localStorage, exportHistory, app, palette>>

NextVariables ==
    \/ \E name \in PanelNames, value \in PanelValues : HandleAddVariable(name, value)
    \/ \E i \in 1..Len(variables), value \in InputValues :
            UpdateVariable(variables[i].name, value)
    \/ \E i \in 1..Len(variables) : RemoveVariable(variables[i].name)
    \/ \E id \in UserIds : SaveTemplate(id)
    \/ \E i \in 1..Len(templates) : DeleteTemplate(templates[i].id)
    \/ \E i \in 1..Len(templates) : LoadTemplate(templates[i].id)

SpecVariables == InitVariables /\ [][NextVariables]_vars

(***************************************************************************)
(* Properties of the variable set and the template catalogue.              *)
(***************************************************************************)
NamesUnique ==
    \A i, j \in 1..Len(variables) : variables[i].name = variables[j].name => i = j

Named(name) == {i \in 1..Len(variables) : variables[i].name = name}

BuiltInsKept ==
    /\ Len(templates) >= Len(DEFAULT_TEMPLATES)
    /\ \A i \in 1..Len(DEFAULT_TEMPLATES) : templates[i] = DEFAULT_TEMPLATES[i]

\* the templates of the list after the built-in ones are the user templates
\* and are what localStorage holds (no item yet: no user template)
StoreHoldsUserTemplates ==
    /\ \A i \in 1..Len(templates) : i > Len(DEFAULT_TEMPLATES) <=> IsUserTemplate(templates[i])
    /\ SubSeq(templates, Len(DEFAULT_TEMPLATES) + 1, Len(templates))
         = IF hasItem(localStorage, "enhancemd-templates")
           THEN localStorage["enhancemd-templates"] ELSE <<>>

\* C22: built-in templates are immutable: a deleteTemplate step on an id
\* without the user- prefix changes neither the template list nor
\* localStorage; in every state reached by saving, deleting and loading
\* templates the built-in templates are in the list with their original
\* content and variables and localStorage holds exactly the user templates
\* of the list; a loadTemplate step makes the variables of the template of
\* that id the active variable set, whatever the set held before.
C22_BuiltInsImmutable ==
    /\ [](BuiltInsKept /\ StoreHoldsUserTemplates)
    /\ [][\A k \in 1..Len(templates) :
            (DeleteTemplate(templates[k].id) /\ ~IsUserTemplate(templates[k])) =>
                (templates' = templates /\ localStorage' = localStorage)]_vars
    /\ [][\A k \in 1..Len(templates) :
            LoadTemplate(templates[k].id) =>
                \E i \in 1..k : /\ templates[i].id = templates[k].id
                                /\ \A j \in 1..(i - 1) : templates[j].id # templates[k].id
                                /\ variables' = templates[i].variables]_vars

\* the proposal template was loaded and saved as a user template, and the
\* meeting notes template was loaded after that
C22_Witness ==
    /\ Len(templates) = 4
    /\ templates[4].id = <<"u", "s", "e", "r", "-", "2">>
    /\ templates[4].variables = DEFAULT_TEMPLATES[1].variables
    /\ localStorage["enhancemd-templates"] = << templates[4] >>
    /\ variables = DEFAULT_TEMPLATES[2].variables
    /\ BuiltInsKept

(***************************************************************************)
(* The export history store.  exportHistory.exports is the store's list;   *)
(* an entry is its id and timestamp (generateExportId gives a new id for   *)
(* every entry, and Date.now() grows from one export to the next: both are *)
(* the count of the exports ever made, clock); made and removed count the   *)
(* calls of addExport and of removeExport since the page was loaded.       *)
(* localStorage.setItem may throw (the quota is shared with other items):  *)
(* saveExportsToStorage catches it.                                        *)
(***************************************************************************)
\* exportHistoryStore.ts:51
MAX_EXPORTS == 50

MaxAdds == 4

MaxRemovals == 1

\* a list of n exports, the newest first
ExportsMade(n) == [i \in 1..n |-> [id |-> n + 1 - i, timestamp |-> n + 1 - i]]

\* what localStorage holds when the page is loaded: no history, or the
\* history of earlier sessions
StoredExports == { NoStorage,
                   setItem(NoStorage, "enhancemd-export-history", ExportsMade(MAX_EXPORTS - 2)) }

\* saveExportsToStorage(exports): written is false when setItem throws
saveExportsToStorage(store, exports, written) ==
    IF written THEN setItem(store, "enhancemd-export-history", exports) ELSE store

\* loadExportsFromStorage()
loadExportsFromStorage(store) ==
    IF hasItem(store, "enhancemd-export-history") THEN store["enhancemd-export-history"]
    ELSE <<>>

\* addExport: [newExport, ...state.exports].slice(0, MAX_EXPORTS)
addExport(exports, newExport) == slice(<<newExport>> \o exports, MAX_EXPORTS)

\* removeExport
removeExport(exports, exportId) == SelectSeq(exports, LAMBDA exp : exp.id # exportId)

InitHistory ==
    /\ doc = <<>>
    /\ content = <<>>
    /\ variables = <<>>
    /\ run = NoRun
    /\ smart = NoSmart
    /\ pipe = NoPipe
    /\ tick = FALSE
    /\ palette = NoPalette
    /\ app = NoApp
    /\ autoSave = NoAutoSave
    /\ templates = NoTemplates
    /\ localStorage \in StoredExports
    /\ exportHistory = [created |-> TRUE, exports |-> loadExportsFromStorage(localStorage),
                        clock |-> Len(loadExportsFromStorage(localStorage)),
                        made |-> 0, removed |-> 0]

AddExport(written) ==
    /\ exportHistory.made < MaxAdds
    /\ exportHistory' =
         [exportHistory EXCEPT
            !.exports = addExport(@, [id |-> exportHistory.clock + 1,
                                      timestamp |-> exportHistory.clock + 1]),
            !.clock = @ + 1,
            !.made = @ + 1]
    /\ localStorage' = saveExportsToStorage(localStorage, exportHistory'.exports, written)
    /\ UNCHANGED <<doc, content, variables, run, smart, pipe, tick, autoSave, templates, app, palette>>

RemoveExport(exportId, written) ==
    /\ exportHistory.removed < MaxRemovals
    /\ exportHistory' = [exportHistory EXCEPT !.exports = removeExport(@, exportId),
                                              !.removed = @ + 1]
    /\ localStorage' = saveExportsToStorage(localStorage, exportHistory'.exports, written)
    /\ UNCHANGED <<doc, content, variables, run, smart, pipe, tick, autoSave, templates, app, palette>>

ClearHistory(written) ==
    /\ exportHistory.exports # <<>>
    /\ exportHistory' = [exportHistory EXCEPT !.exports = <<>>]
    /\ localStorage' = saveExportsToStorage(localStorage, <<>>, written)
    /\ UNCHANGED <<doc, content, variables, run, smart, pipe, tick, autoSave, templates, app, palette>>

\* initializeFromStorage (the page is loaded again)
InitializeFromStorage ==
    /\ exportHistory' = [exportHistory EXCEPT !.exports = loadExportsFromStorage(localStorage)]
    /\ UNCHANGED <<doc, content, variables, run, smart, pipe, tick, autoSave, templates, localStorage, app, palette>>

NextHistory ==
    \/ \E written \in BOOLEAN : AddExport(written)
    \/ \E i \in 1..Len(exportHistory.exports), written \in BOOLEAN :
          RemoveExport(exportHistory.exports[i].id, written)
    \/ \E written \in BOOLEAN : ClearHistory(written)
    \/ InitializeFromStorage

SpecHistory == InitHistory /\ [][NextHistory]_vars

(***************************************************************************)
(* Properties of the export history.                                       *)
(***************************************************************************)
NewestFirst(exports) ==
    \A i \in 1..(Len(exports) - 1) : exports[i].timestamp > exports[i + 1].timestamp

Persisted(exports) ==
    IF hasItem(localStorage, "enhancemd-export-history")
    THEN localStorage["enhancemd-export-history"] = exports
    ELSE exports = <<>>

HistoryBounded ==
    /\ Len(exportHistory.exports) <= MAX_EXPORTS
    /\ NewestFirst(exportHistory.exports)

AddDropsOldest ==
    \A written \in BOOLEAN :
        (AddExport(written) /\ Len(exportHistory.exports) = MAX_EXPORTS) =>
            /\ Len(exportHistory'.exports) = MAX_EXPORTS
            /\ exportHistory'.exports[1].id = exportHistory.clock + 1
            /\ \A i \in 2..MAX_EXPORTS : exportHistory'.exports[i] = exportHistory.exports[i - 1]

RemoveOnlyThat ==
    \A k \in 1..Len(exportHistory.exports), written \in BOOLEAN :
        RemoveExport(exportHistory.exports[k].id, written) =>
            /\ Len(exportHistory'.exports) = Len(exportHistory.exports) - 1
            /\ \A i \in 1..Len(exportHistory'.exports) :
                  exportHistory'.exports[i] = exportHistory.exports[IF i < k THEN i ELSE i + 1]

\* C23 as claimed: the export history is limited to the last 50 exports: in
\* every state reached by addExport, removeExport, clearHistory and
\* initializeFromStorage the list holds at most 50 entries, newest first,
\* and the list persisted in localStorage holds the same entries in the
\* same order; addExport on a full list drops the oldest entry and
\* removeExport removes only the entry of the given id.
C23_HistoryLimitedAndPersisted ==
    /\ [](HistoryBounded /\ Persisted(exportHistory.exports))
    /\ [][AddDropsOldest /\ RemoveOnlyThat]_vars

\* the spans of the descriptors, in ascending start, are pairwise disjoint
SpansDisjoint(components) ==
    \A i \in 1..(Len(components) - 1) : components[i].endIndex <= components[i + 1].startIndex

\* span-based rewriting: the span [startIndex, endIndex) of each of the
\* first k descriptors replaced by its marker, the last span first
RECURSIVE SpanRewrite(_, _, _)
SpanRewrite(text, components, k) ==
    IF k = 0 THEN text
    ELSE SpanRewrite(Take(text, components[k].startIndex) \o Placeholder(k - 1)
                        \o Drop(text, components[k].endIndex),
                     components, k - 1)

\* C24 as claimed: for every text in which the spans of the emitted
\* descriptors are pairwise disjoint, transformMarkdown (each descriptor, in
\* ascending start, replacing the first occurrence of its raw text) gives
\* the text in which each descriptor's span is replaced by its own marker.
C24_FirstOccurrenceIsSpanRewrite ==
    (smart.done /\ SpansDisjoint(smart.smartComponents)) =>
        smart.enhancedMarkdown
          = SpanRewrite(smart.markdown, smart.smartComponents, Len(smart.smartComponents))

(***************************************************************************)
(* Quick re-export (App).  app.settings are the App's states currentTheme, *)
(* fontSize, spacing, fontFamily and enhancements; a render's functions    *)
(* (handleQuickReExport, the export functions, createExportHistoryEntry,   *)
(* the memo getAllStyles) see the settings of that render.  app.timer is   *)
(* the timeout handleQuickReExport sets, with the settings its callback    *)
(* closed over; app.lastExport is the export that ran last.  The content   *)
(* hash is kept as the pair it is computed from.                           *)
(***************************************************************************)
MaxExportRuns == 2

Settings(theme, fontSize, coverPage) ==
    [theme |-> theme, fontSize |-> fontSize, spacing |-> "normal",
     fontFamily |-> "sans-serif",
     enhancements |-> [coverPage |-> coverPage, tableOfContents |-> FALSE,
                       pageNumbers |-> FALSE, headerFooter |-> FALSE]]

ThemeKeys == { "modern", "executive" }

FontSizes == { "medium", "large" }

ExportFormats == { "html", "markdown" }

\* generateContentHash(content, settings)
generateContentHash(text, settings) == << text, settings >>

\* createExportHistoryEntry(format, ...) of a render with the given settings
createExportHistoryEntry(format, text, settings) ==
    [format |-> format, settings |-> settings,
     contentHash |-> generateContentHash(text, settings)]

\* addExport: the entry with a new id and the time
newExport(exportItem, now) ==
    [id |-> now, timestamp |-> now, format |-> exportItem.format,
     settings |-> exportItem.settings, contentHash |-> exportItem.contentHash]

NoReExport == [pending |-> FALSE]

NoExport == [ran |-> FALSE]

\* an export function of a render with the given settings: the file is
\* written with the styles and enhancements of that render and the entry
\* of that render is added to the history
RunExport(format, settings, reExportOf) ==
    /\ exportHistory.made < MaxExportRuns
    /\ app' = [app EXCEPT !.timer = IF reExportOf = 0 THEN @ ELSE NoReExport,
                          !.lastExport = [ran |-> TRUE, format |-> format,
                                          styles |-> [theme |-> settings.theme,
                                                      fontSize |-> settings.fontSize,
                                                      spacing |-> settings.spacing,
                                                      fontFamily |-> settings.fontFamily],
                                          enhancements |-> settings.enhancements,
                                          reExportOf |-> reExportOf]]
    /\ exportHistory' =
         [exportHistory EXCEPT
            !.exports = addExport(@, newExport(createExportHistoryEntry(format, content, settings),
                                               exportHistory.clock + 1)),
            !.clock = @ + 1,
            !.made = @ + 1]
    /\ \E written \in BOOLEAN :
          localStorage' = saveExportsToStorage(localStorage, exportHistory'.exports, written)
    /\ UNCHANGED <<doc, content, variables, run, smart, pipe, tick, autoSave, templates, palette>>

InitReExport ==
    /\ doc = <<>>
    /\ content = defaultMarkdown
    /\ variables = <<>>
    /\ run = NoRun
    /\ smart = NoSmart
    /\ pipe = NoPipe
    /\ tick = FALSE
    /\ palette = NoPalette
    /\ autoSave = NoAutoSave
    /\ templates = NoTemplates
    /\ localStorage = NoStorage
    /\ exportHistory = [created |-> TRUE, exports |-> <<>>, clock |-> 0, made |-> 0, removed |-> 0]
    /\ app = [rendered |-> TRUE, settings |-> Settings("modern", "medium", FALSE),
              timer |-> NoReExport, lastExport |-> NoExport]

\* the settings panel: setCurrentTheme, setFontSize, setEnhancements
ChangeSettings ==
    \E theme \in ThemeKeys, fontSize \in FontSizes, coverPage \in BOOLEAN :
        /\ Settings(theme, fontSize, coverPage) # app.settings
        /\ \/ theme = app.settings.theme /\ fontSize = app.settings.fontSize
           \/ theme = app.settings.theme /\ coverPage = app.settings.enhancements.coverPage
           \/ fontSize = app.settings.fontSize /\ coverPage = app.settings.enhancements.coverPage
        /\ app' = [app EXCEPT !.settings = Settings(theme, fontSize, coverPage)]
        /\ UNCHANGED <<doc, content, variables, run, smart, pipe, tick, autoSave, templates, localStorage, exportHistory, palette>>

\* an export button: the export function of the latest render
Export ==
    \E format \in ExportFormats :
        /\ ~app.timer.pending
        /\ RunExport(format, app.settings, 0)

\* handleQuickReExport(exportId): the settings of the entry are set and the
\* timeout is set with the export functions of the render the handler
\* belongs to
handleQuickReExport(a, exportItem) ==
    [a EXCEPT !.settings = exportItem.settings,
              !.timer = [pending |-> TRUE, format |-> exportItem.format,
                         settings |-> a.settings, exportId |-> exportItem.id]]

HandleQuickReExport ==
    \E i \in 1..Len(exportHistory.exports) :
        /\ ~app.timer.pending
        /\ app' = handleQuickReExport(app, exportHistory.exports[i])
        /\ UNCHANGED <<doc, content, variables, run, smart, pipe, tick, autoSave, templates, localStorage, exportHistory, palette>>

\* the timeout of handleQuickReExport fires
ReExportTimeout ==
    /\ app.timer.pending
    /\ RunExport(app.timer.format, app.timer.settings, app.timer.exportId)

NextReExport == ChangeSettings \/ Export \/ HandleQuickReExport \/ ReExportTimeout

SpecReExport == InitReExport /\ [][NextReExport]_vars

(***************************************************************************)
(* Properties of quick re-export.                                          *)
(***************************************************************************)
\* the history entry of the given id
ExportOfId(exportId) ==
    exportHistory.exports[CHOOSE i \in 1..Len(exportHistory.exports) :
                             exportHistory.exports[i].id = exportId]

\* C25 as claimed: the export that a quick re-export runs uses the settings
\* stored in the entry: its styles and enhancements, and the settings and
\* content hash of the history entry it adds, are those of the re-exported
\* entry, not the settings that were active when the re-export was requested.
C25_ReExportUsesStoredSettings ==
    (app.lastExport.ran /\ app.lastExport.reExportOf # 0) =>
        LET exportItem == ExportOfId(app.lastExport.reExportOf)
        IN  /\ app.lastExport.format = exportItem.format
            /\ app.lastExport.styles.theme = exportItem.settings.theme
            /\ app.lastExport.styles.fontSize = exportItem.settings.fontSize
            /\ app.lastExport.styles.spacing = exportItem.settings.spacing
            /\ app.lastExport.styles.fontFamily = exportItem.settings.fontFamily
            /\ app.lastExport.enhancements = exportItem.settings.enhancements
            /\ exportHistory.exports[1].settings = exportItem.settings
            /\ exportHistory.exports[1].contentHash
                 = generateContentHash(content, exportItem.settings)

(***************************************************************************)
(* The command palette (CommandPalette).  palette holds isOpen (the prop   *)
(* the App passes from useCommandPalette), the component's query and       *)
(* selectedIndex (an index from 0, as in the code), the memo              *)
(* filteredCommands, and ran, the id of the command whose action was run   *)
(* last.  The commands are four of the App's commands; scores are in       *)
(* thousandths.                                                            *)
(***************************************************************************)
Commands ==
    << [id |-> "export-html", title |-> <<"E", "x", "p", "o", "r", "t", " ", "a", "s", " ", "H", "T", "M", "L">>,
        description |-> <<"D", "o", "w", "n", "l", "o", "a", "d", " ", "a", "s", " ", "s", "t", "a", "n", "d", "a", "l", "o", "n", "e", " ", "H", "T", "M", "L", " ", "f", "i", "l", "e">>, category |-> <<"E", "x", "p", "o", "r", "t">>],
       [id |-> "save-document", title |-> <<"S", "a", "v", "e", " ", "D", "o", "c", "u", "m", "e", "n", "t">>,
        description |-> <<"S", "a", "v", "e", " ", "d", "o", "c", "u", "m", "e", "n", "t", " ", "w", "i", "t", "h", " ", "a", "l", "l", " ", "s", "e", "t", "t", "i", "n", "g", "s">>, category |-> <<"D", "o", "c", "u", "m", "e", "n", "t">>],
       [id |-> "manual-save-draft", title |-> <<"S", "a", "v", "e", " ", "D", "r", "a", "f", "t", " ", "N", "o", "w">>,
        description |-> <<"M", "a", "n", "u", "a", "l", "l", "y", " ", "s", "a", "v", "e", " ", "c", "u", "r", "r", "e", "n", "t", " ", "c", "o", "n", "t", "e", "n", "t", " ", "a", "s", " ", "d", "r", "a", "f", "t">>, category |-> <<"D", "o", "c", "u", "m", "e", "n", "t">>],
       [id |-> "add-images", title |-> <<"A", "d", "d", " ", "I", "m", "a", "g", "e", "s">>,
        description |-> <<"U", "p", "l", "o", "a", "d", " ", "a", "n", "d", " ", "e", "m", "b", "e", "d", " ", "i", "m", "a", "g", "e", "s", " ", "i", "n", " ", "d", "o", "c", "u", "m", "e", "n", "t">>, category |-> <<"D", "o", "c", "u", "m", "e", "n", "t">>] >>

\* the texts typed into the search field
Queries == { <<>>, <<" ">>, <<"s">>, <<"s", "a", "v", "e">>, <<"s", "d">>, <<"D", "o", "c">>, <<"h", "t", "m", "l">>, <<"z", "z">>, <<"m", "g">> }

\* the first letters of the words of text
RECURSIVE Acronym(_, _)
Acronym(text, i) ==
    IF i > Len(text) THEN <<>>
    ELSE (IF ~IsSpace(text[i]) /\ (i = 1 \/ IsSpace(text[i - 1])) THEN <<text[i]>> ELSE <<>>)
         \o Acronym(text, i + 1)

\* the loop of fuzzySearch over the characters of text from i, in tenths;
\* lastMatchIndex counts from 1
RECURSIVE CharacterScore(_, _, _, _, _, _, _)
CharacterScore(query, text, i, queryIndex, consecutiveMatches, lastMatchIndex, score) ==
    IF i > Len(text) \/ queryIndex >= Len(query)
    THEN IF queryIndex = Len(query) THEN score + 150 ELSE score
    ELSE IF text[i] = query[queryIndex + 1]
         THEN CharacterScore(query, text, i + 1, queryIndex + 1,
                             IF i = lastMatchIndex + 1 THEN consecutiveMatches + 1 ELSE 1,
                             i,
                             score + (IF i = lastMatchIndex + 1
                                      THEN 10 * (3 + consecutiveMatches + 1) ELSE 20)
                                   + (IF queryIndex < 3 THEN 10 * (3 - queryIndex) ELSE 0))
         ELSE CharacterScore(query, text, i + 1, queryIndex, consecutiveMatches,
                             lastMatchIndex, score)

\* fuzzySearch(query, text) of lower-case texts, in tenths
Scored(query, text) ==
    IF text = query THEN 1000
    ELSE IF IndexOf(text, query, 1) > 0
         THEN 500 + (IF IndexOf(text, query, 1) = 1 \/ IsSpace(text[IndexOf(text, query, 1) - 1])
                     THEN 200 ELSE 0)
                  - (IndexOf(text, query, 1) - 1)
         ELSE IF IndexOf(Acronym(text, 1), query, 1) > 0 THEN 300
              ELSE CharacterScore(query, text, 1, 0, 0, 0, 0)

\* fuzzySearch(query, text), in tenths
fuzzySearch(query, text) ==
    IF query = <<>> THEN 10 ELSE Scored(ToLowerCase(query), ToLowerCase(text))

Max3(a, b, c) ==
    IF a >= b /\ a >= c THEN a ELSE IF b >= c THEN b ELSE c

\* the score of a command, in thousandths
score(query, command) ==
    Max3(100 * fuzzySearch(query, command.title),
         70 * fuzzySearch(query, command.description),
         50 * fuzzySearch(query, command.category))

\* Array.prototype.sort((a, b) => b.score - a.score) of commands: stable
RECURSIVE SortByScore(_, _)
SortByScore(query, commands) ==
    IF commands = <<>> THEN <<>>
    ELSE LET rest == SortByScore(query, Tail(commands))
             before == SelectSeq(rest, LAMBDA c : score(query, c) > score(query, Head(commands)))
             after == SelectSeq(rest, LAMBDA c : score(query, c) <= score(query, Head(commands)))
         IN before \o <<Head(commands)>> \o after

\* filteredCommands of a render with the query
filteredCommands(commands, query) ==
    IF Trim(query) = <<>> THEN commands
    ELSE SortByScore(query, SelectSeq(commands, LAMBDA c : score(query, c) > 0))

\* the memo of filteredCommands for the App's commands, by query
FilteredCommands == [query \in Queries |-> filteredCommands(Commands, query)]

InitPalette ==
    /\ doc = <<>>
    /\ content = <<>>
    /\ variables = <<>>
    /\ run = NoRun
    /\ smart = NoSmart
    /\ pipe = NoPipe
    /\ tick = FALSE
    /\ autoSave = NoAutoSave
    /\ templates = NoTemplates
    /\ localStorage = NoStorage
    /\ exportHistory = NoExportHistory
    /\ app = NoApp
    /\ palette = [isOpen |-> FALSE, query |-> <<>>, filteredCommands |-> Commands,
                  selectedIndex |-> 0, ran |-> "none"]

\* commandPalette.open (the Search button, Ctrl+K)
OpenPalette ==
    /\ ~palette.isOpen
    /\ palette' = [palette EXCEPT !.isOpen = TRUE]
    /\ UNCHANGED <<doc, content, variables, run, smart, pipe, tick, autoSave, templates, localStorage, exportHistory, app>>

\* onClose and the effect on [isOpen] that follows it
close(p) ==
    [p EXCEPT !.isOpen = FALSE, !.query = <<>>, !.filteredCommands = Commands,
              !.selectedIndex = 0]

\* setQuery(query) from the search field, and the effect on
\* [filteredCommands] when the memo gave a new list
SetQuery(query) ==
    /\ palette.isOpen
    /\ query # palette.query
    /\ palette' = [palette EXCEPT !.query = query,
                                  !.filteredCommands = FilteredCommands[query],
                                  !.selectedIndex = IF Trim(query) = <<>> /\ Trim(palette.query) = <<>>
                                                    THEN @ ELSE 0]
    /\ UNCHANGED <<doc, content, variables, run, smart, pipe, tick, autoSave, templates, localStorage, exportHistory, app>>

\* handleKeyDown, ArrowDown
ArrowDown ==
    /\ palette.isOpen
    /\ palette' = [palette EXCEPT !.selectedIndex =
                      IF @ < Len(palette.filteredCommands) - 1 THEN @ + 1 ELSE 0]
    /\ UNCHANGED <<doc, content, variables, run, smart, pipe, tick, autoSave, templates, localStorage, exportHistory, app>>

\* handleKeyDown, ArrowUp
ArrowUp ==
    /\ palette.isOpen
    /\ palette' = [palette EXCEPT !.selectedIndex =
                      IF @ > 0 THEN @ - 1 ELSE Len(palette.filteredCommands) - 1]
    /\ UNCHANGED <<doc, content, variables, run, smart, pipe, tick, autoSave, templates, localStorage, exportHistory, app>>

\* handleKeyDown, Enter: the action of filteredCommands[selectedIndex], when
\* there is such a command, and onClose
Enter ==
    /\ palette.isOpen
    /\ palette.selectedIndex + 1 \in 1..Len(palette.filteredCommands)
    /\ palette' = [close(palette) EXCEPT !.ran =
                      palette.filteredCommands[palette.selectedIndex + 1].id]
    /\ UNCHANGED <<doc, content, variables, run, smart, pipe, tick, autoSave, templates, localStorage, exportHistory, app>>

\* handleKeyDown, Escape; the close button; a click outside
Escape ==
    /\ palette.isOpen
    /\ palette' = close(palette)
    /\ UNCHANGED <<doc, content, variables, run, smart, pipe, tick, autoSave, templates, localStorage, exportHistory, app>>

\* a click on the command at the place i of the list
ClickCommand(i) ==
    /\ palette.isOpen
    /\ i \in 1..Len(palette.filteredCommands)
    /\ palette' = [close(palette) EXCEPT !.ran = palette.filteredCommands[i].id]
    /\ UNCHANGED <<doc, content, variables, run, smart, pipe, tick, autoSave, templates, localStorage, exportHistory, app>>

NextPalette ==
    \/ OpenPalette
    \/ \E query \in Queries : SetQuery(query)
    \/ ArrowDown
    \/ ArrowUp
    \/ Enter
    \/ Escape
    \/ \E i \in 1..Len(Commands) : ClickCommand(i)

SpecPalette == InitPalette /\ [][NextPalette]_vars

====
